---- MODULE Spec2Model ----
(***************************************************************************)
(* Background-subtraction modules of PynPoint                              *)
(* (processing_modules/BackgroundSubtraction.py) as state machines.        *)
(*                                                                         *)
(* Conventions.  An image is modelled by one pixel: every operation of     *)
(* the modules on images (subtraction, np.mean(axis=0), averaging) is      *)
(* elementwise.  A pixel value is an exact rational <<n, d>> in lowest     *)
(* terms with d > 0; <<0, 0>> is NaN (numpy's mean of an empty slice).     *)
(* Every Python index kept in the state (loop counters, m_index, slice     *)
(* bounds) is 0-based as in the source; At and Slice read a 1-based TLA+   *)
(* sequence with such indices.                                             *)
(***************************************************************************)
EXTENDS Integers, Sequences, FiniteSets, TLC

VARIABLES
    \* ---- NoddingBackgroundModule and its database tags
    sky_arr,            \* sky_in_tag: one frame per sky exposure
    sky_exp_no,         \* attribute EXP_NO of sky_in_tag
    science_arr,        \* science_in_tag: the frames of all science exposures
    science_exp_no,     \* attribute EXP_NO of science_in_tag
    science_nframes,    \* attribute NFRAMES of science_in_tag
    m_time_stamps,      \* self.m_time_stamps
    m_mode,             \* self.m_mode
    nod_out,            \* image_out_tag
    nod_pc,             \* position inside NoddingBackgroundModule.run
    nod_i,              \* loop counter of run's for loop
    nod_runs,           \* number of times run was started on this instance
    \* ---- SimpleBackgroundSubtractionModule and its database tags
    simple_db,          \* the database: tag -> stack of frames
    simple_in_tag,      \* tag of m_image_in_port
    simple_out_tag,     \* tag of m_image_out_port
    simple_shift,       \* self.m_star_prs_shift
    simple_pc,          \* position inside SimpleBackgroundSubtractionModule.run
    simple_i,           \* loop counter of run's for loop
    simple_orig,        \* history: the input stack as it was before run
    \* ---- MeanBackgroundSubtractionModule and its database tags
    mean_in,            \* image_in_tag: the input stack
    mean_nframes,       \* attribute NFRAMES of image_in_tag
    m_star_prs_shift,   \* self.m_star_prs_shift: None, an int or an ndarray
    m_cubes_per_position, \* self.m_cubes_per_position
    mean_out,           \* image_out_tag
    mean_out_orig,      \* history: image_out_tag as it was before run
    mean_pc,            \* position inside MeanBackgroundSubtractionModule.run
    mean_i,             \* loop counter of run's for loops
    \* ---- PCABackgroundPreparationModule and its database tags
    prep_in,            \* image_in_tag: the input stack
    prep_shape,         \* image_in_tag: <<rows, columns>> of a frame
    prep_nframes,       \* attribute NFRAMES of image_in_tag
    prep_parang,        \* attribute NEW_PARA of image_in_tag
    prep_has_para,      \* "NEW_PARA" is among the non-static attributes
    m_dither_positions, \* self.m_dither_positions
    prep_cubes_per_position, \* self.m_cubes_per_position
    m_first_star_cube,  \* self.m_first_star_cube
    cube_mean,          \* local cube_mean
    bg_frames,          \* local bg_frames
    star_init,          \* local star_init
    background_init,    \* local background_init
    star_out,           \* star_out_tag
    background_out,     \* background_out_tag
    star_parang,        \* local star_parang
    star_nframes,       \* local star_nframes
    background_parang,  \* local background_parang
    background_nframes, \* local background_nframes
    bg_prev,            \* locals index_prev, bg_prev (unbound until assigned)
    bg_next,            \* locals index_next, bg_next (unbound until assigned)
    prep_count,         \* local count
    prep_i,             \* loop counter of the loop over the cubes
    prep_pc,            \* position inside PCABackgroundPreparationModule.run
    prep_background,    \* history: local background of every cube processed
    star_attrs,         \* attributes NEW_PARA and NFRAMES of star_out_tag
    background_attrs,   \* attributes NEW_PARA and NFRAMES of background_out_tag
    \* ---- PCABackgroundSubtractionModule and its database tags
    pca_star,           \* star_in_tag: the star frames
    star_position,      \* attribute STAR_POSITION of star_in_tag, one (x, y) per frame
    im_background,      \* background_in_tag: the background frames
    image_memory,       \* attribute MEMORY of the configuration
    m_mask_position,    \* self.m_mask_position
    m_mask_radius_sq,   \* square of self.m_mask_radius in pixels (after line 647)
    m_residuals_out_tag, \* self.m_residuals_out_tag is not None
    subtracted_out,     \* subtracted_out_tag
    residuals_out,      \* residuals_out_tag
    basis_pca,          \* local basis_pca
    pca_mask,           \* local mask
    pca_i,              \* loop counter of the loop over the stacks
    pca_pc,             \* position inside PCABackgroundSubtractionModule.run
    pca_masks,          \* history: the mask applied to every frame written
    \* ---- FakePlanetModule and its database tags
    fp_image,           \* image_in_tag: the science frames
    fp_image_shape,     \* image_in_tag: get_shape()
    fp_parang,          \* attribute NEW_PARA of image_in_tag
    fp_same_tag,        \* psf_in_tag == image_in_tag
    fp_psf,             \* psf_in_tag: the frames (3-D) or the rows (2-D) of the PSF
    fp_psf_shape,       \* psf_in_tag: get_shape()
    fp_memory,          \* attribute MEMORY of the configuration
    fp_out,             \* image_out_tag
    im_stacks,          \* local im_stacks
    fp_psf_mean,        \* local psf
    fp_j,               \* loop counter j of the loop over the stacks
    fp_pc,              \* position inside FakePlanetModule.run
    \* ---- SimplexMinimizationModule and its database tags; positions are kept
    \* in half pixels, so that the centre psf_size/2. is a pair of integers
    sx_image_shape,     \* image_in_tag: get_shape()
    sx_ndim_psf,        \* psf_in_tag: np.size(get_shape())
    m_position,         \* self.m_position
    m_magnitude,        \* self.m_magnitude
    m_merit,            \* self.m_merit
    m_pca_module,       \* self.m_pca_module
    m_extra_rot,        \* self.m_extra_rot (degrees)
    sx_center,          \* local center of run
    res_out,            \* res_out_tag
    flux_position,      \* flux_position_tag
    sx_planet,          \* where the merit has its minimum (fixed by the data)
    sx_evaluations,     \* history: arg and crop centre of every call of _objective
    sx_pc,              \* position inside SimplexMinimizationModule.run
    \* ---- the constructors of NoddingBackgroundModule and SkySubtraction
    new_class,          \* the class that is constructed
    new_tags,           \* arguments sky_in_tag, science tag, output tag
    new_mode,           \* argument mode
    new_ports,          \* the ports the constructor has added
    new_m_time_stamps,  \* self.m_time_stamps
    new_m_mode,         \* self.m_mode
    new_pc,             \* position inside __init__
    \* ---- PCABackgroundDitheringModule
    dither_nframes,     \* attribute NFRAMES of image_in_tag
    dither_has_para,    \* "NEW_PARA" is among the attributes of image_in_tag
    m_center,           \* self.m_center
    dither_cubes_per_position, \* self.m_cubes_per_position
    dither_prepared,    \* history: dither tuple and bg_frames of every prepare
    dither_tags,        \* local tags
    dither_out,         \* image_out_tag: the tags that were combined
    dither_i,           \* loop counter i of run
    dither_pc           \* position inside PCABackgroundDitheringModule.run

nodVars == <<sky_arr, sky_exp_no, science_arr, science_exp_no, science_nframes,
             m_time_stamps, m_mode, nod_out, nod_pc, nod_i, nod_runs>>

simpleVars == <<simple_db, simple_in_tag, simple_out_tag, simple_shift,
                simple_pc, simple_i, simple_orig>>

meanVars == <<mean_in, mean_nframes, m_star_prs_shift, m_cubes_per_position,
              mean_out, mean_out_orig, mean_pc, mean_i>>

prepVars == <<prep_in, prep_shape, prep_nframes, prep_parang, prep_has_para,
              m_dither_positions, prep_cubes_per_position, m_first_star_cube,
              cube_mean, bg_frames, star_init, background_init, star_out,
              background_out, star_parang, star_nframes, background_parang,
              background_nframes, bg_prev, bg_next, prep_count, prep_i, prep_pc,
              prep_background, star_attrs, background_attrs>>

pcaVars == <<pca_star, star_position, im_background, image_memory,
             m_mask_position, m_mask_radius_sq, m_residuals_out_tag,
             subtracted_out, residuals_out, basis_pca, pca_mask, pca_i, pca_pc,
             pca_masks>>

fpVars == <<fp_image, fp_image_shape, fp_parang, fp_same_tag, fp_psf, fp_psf_shape,
            fp_memory, fp_out, im_stacks, fp_psf_mean, fp_j, fp_pc>>

sxVars == <<sx_image_shape, sx_ndim_psf, m_position, m_magnitude, m_merit,
            m_pca_module, m_extra_rot, sx_center, res_out, flux_position,
            sx_planet, sx_evaluations, sx_pc>>

newVars == <<new_class, new_tags, new_mode, new_ports, new_m_time_stamps,
             new_m_mode, new_pc>>

ditherVars == <<dither_nframes, dither_has_para, m_center,
                dither_cubes_per_position, dither_prepared, dither_tags,
                dither_out, dither_i, dither_pc>>

vars == <<nodVars, simpleVars, meanVars, prepVars, pcaVars, fpVars, sxVars, newVars, ditherVars>>

\* the variables of the modules other than the one a specification runs
notNodVars == <<simpleVars, meanVars, prepVars, pcaVars, fpVars, sxVars, newVars, ditherVars>>
notSimpleVars == <<nodVars, meanVars, prepVars, pcaVars, fpVars, sxVars, newVars, ditherVars>>
notMeanVars == <<nodVars, simpleVars, prepVars, pcaVars, fpVars, sxVars, newVars, ditherVars>>
notPrepVars == <<nodVars, simpleVars, meanVars, pcaVars, fpVars, sxVars, newVars, ditherVars>>
notPcaVars == <<nodVars, simpleVars, meanVars, prepVars, fpVars, sxVars, newVars, ditherVars>>
notFpVars == <<nodVars, simpleVars, meanVars, prepVars, pcaVars, sxVars, newVars, ditherVars>>
notSxVars == <<nodVars, simpleVars, meanVars, prepVars, pcaVars, fpVars, newVars, ditherVars>>
notNewVars == <<nodVars, simpleVars, meanVars, prepVars, pcaVars, fpVars, sxVars, ditherVars>>
notDitherVars == <<nodVars, simpleVars, meanVars, prepVars, pcaVars, fpVars, sxVars, newVars>>

-----------------------------------------------------------------------------
(* Bounds of the model *)

MaxSky == 2
MaxScience == 2
MaxExpNo == 2
MaxRuns == 2
MaxFallbacks == 3
MaxSimpleFrames == 3
MaxSimplePixel == 2
MaxSimpleShift == 3
MaxMeanFrames == 6
MaxMeanShift == 3
MaxMeanPixel == 1
MaxCubesPerPosition == 2
MaxPrepCubes == 7
MaxDitherPositions == 3
MaxFirstStarCube == 4
MaxPcaFrames == 5
MaxMemory == 4
MaxFpFrames == 3
MaxEvaluations == 5

-----------------------------------------------------------------------------
(* Exact arithmetic standing for numpy's float arithmetic *)

Abs(n) == IF n < 0 THEN 0 - n ELSE n

RECURSIVE GCD(_, _)
GCD(a, b) == IF b = 0 THEN a ELSE GCD(b, a % b)

NaN == <<0, 0>>

IsNaN(a) == a[2] = 0

Rat(n, d) ==
    IF d = 0 THEN NaN
    ELSE LET s == IF d < 0 THEN 0 - 1 ELSE 1
             g == GCD(Abs(n), Abs(d))
         IN  <<(s * n) \div g, (s * d) \div g>>

FromInt(n) == <<n, 1>>

RAdd(a, b) ==
    IF IsNaN(a) \/ IsNaN(b) THEN NaN
    ELSE Rat(a[1] * b[2] + b[1] * a[2], a[2] * b[2])

RSub(a, b) ==
    IF IsNaN(a) \/ IsNaN(b) THEN NaN
    ELSE Rat(a[1] * b[2] - b[1] * a[2], a[2] * b[2])

RDiv(a, k) == IF IsNaN(a) \/ k = 0 THEN NaN ELSE Rat(a[1], a[2] * k)

\* a + b, the division by 2.0 left out
SumNotHalved(a, b) == RAdd(a, b)

\* (a + b) / 2.0
Average2(a, b) == RDiv(RAdd(a, b), 2)

RECURSIVE SumSeq(_)
SumSeq(s) == IF s = <<>> THEN FromInt(0) ELSE RAdd(Head(s), SumSeq(Tail(s)))

\* np.mean(frames, axis=0); NaN for an empty stack of frames
NpMean(s) == RDiv(SumSeq(s), Len(s))

\* frames - image (broadcast subtraction)
SubtractFromAll(s, b) == [k \in 1..Len(s) |-> RSub(s[k], b)]

\* port[k]
At(s, k) == s[k + 1]

\* a slice bound as Python reads it: negative bounds count from the end, and
\* bounds are clipped to the data
SliceBound(s, k) ==
    IF k < 0 THEN (IF k + Len(s) < 0 THEN 0 ELSE k + Len(s))
    ELSE IF k > Len(s) THEN Len(s) ELSE k

\* port[lo:hi], numpy's reading: empty when the bounds are in reverse order
Slice(s, lo, hi) ==
    IF SliceBound(s, lo) >= SliceBound(s, hi) THEN <<>>
    ELSE SubSeq(s, SliceBound(s, lo) + 1, SliceBound(s, hi))

\* port[lo:hi] selects in reverse order (stop before start)
ReverseOrder(s, lo, hi) == SliceBound(s, hi) < SliceBound(s, lo)

Min(S) == CHOOSE x \in S : \A y \in S : x <= y
Max(S) == CHOOSE x \in S : \A y \in S : x >= y

RECURSIVE SumInts(_)
SumInts(s) == IF s = <<>> THEN 0 ELSE Head(s) + SumInts(Tail(s))

-----------------------------------------------------------------------------
(* The modules a specification does not run stay as constructed *)

SimpleTags == {"im_arr", "bg_cleaned_arr"}

SimpleIdle ==
    /\ simple_db = [t \in SimpleTags |-> <<>>]
    /\ simple_in_tag = "im_arr"
    /\ simple_out_tag = "bg_cleaned_arr"
    /\ simple_shift = 0
    /\ simple_pc = "unused"
    /\ simple_i = 0
    /\ simple_orig = <<>>

MeanIdle ==
    /\ mean_in = <<>>
    /\ mean_nframes = <<>>
    /\ m_star_prs_shift = [kind |-> "None", int |-> 0, array |-> <<>>]
    /\ m_cubes_per_position = 1
    /\ mean_out = <<>>
    /\ mean_out_orig = <<>>
    /\ mean_pc = "unused"
    /\ mean_i = 0

\* the attributes NEW_PARA and NFRAMES of a tag that carries none
NoAttributes == [NEW_PARA |-> <<>>, NFRAMES |-> <<>>]

Unbound == [bound |-> FALSE, index |-> 0 - 1, value |-> NaN]

PrepIdle ==
    /\ prep_in = <<>>
    /\ prep_shape = <<1, 1>>
    /\ prep_nframes = <<>>
    /\ prep_parang = <<>>
    /\ prep_has_para = TRUE
    /\ m_dither_positions = 1
    /\ prep_cubes_per_position = 1
    /\ m_first_star_cube = 0
    /\ cube_mean = <<>>
    /\ bg_frames = <<>>
    /\ star_init = FALSE
    /\ background_init = FALSE
    /\ star_out = <<>>
    /\ background_out = <<>>
    /\ star_parang = <<>>
    /\ star_nframes = <<>>
    /\ background_parang = <<>>
    /\ background_nframes = <<>>
    /\ bg_prev = Unbound
    /\ bg_next = Unbound
    /\ prep_count = 0
    /\ prep_i = 0
    /\ prep_pc = "unused"
    /\ prep_background = <<>>
    /\ star_attrs = NoAttributes
    /\ background_attrs = NoAttributes

PcaIdle ==
    /\ pca_star = <<>>
    /\ star_position = <<>>
    /\ im_background = <<>>
    /\ image_memory = 1
    /\ m_mask_position = "mean"
    /\ m_mask_radius_sq = 1
    /\ m_residuals_out_tag = FALSE
    /\ subtracted_out = <<>>
    /\ residuals_out = <<>>
    /\ basis_pca = <<>>
    /\ pca_mask = <<>>
    /\ pca_i = 0
    /\ pca_pc = "unused"
    /\ pca_masks = <<>>

FpIdle ==
    /\ fp_image = <<>>
    /\ fp_image_shape = <<>>
    /\ fp_parang = <<>>
    /\ fp_same_tag = FALSE
    /\ fp_psf = <<>>
    /\ fp_psf_shape = <<>>
    /\ fp_memory = 1
    /\ fp_out = <<>>
    /\ im_stacks = <<>>
    /\ fp_psf_mean = NaN
    /\ fp_j = 0
    /\ fp_pc = "unused"

SxIdle ==
    /\ sx_image_shape = <<>>
    /\ sx_ndim_psf = 3
    /\ m_position = <<0, 0>>
    /\ m_magnitude = 0
    /\ m_merit = "hessian"
    /\ m_pca_module = "PSFSubtractionModule"
    /\ m_extra_rot = 0
    /\ sx_center = <<0, 0>>
    /\ res_out = <<>>
    /\ flux_position = <<>>
    /\ sx_planet = <<0, 0, 0>>
    /\ sx_evaluations = <<>>
    /\ sx_pc = "unused"

NewIdle ==
    /\ new_class = "NoddingBackgroundModule"
    /\ new_tags = <<"sky_arr", "im_arr", "im_arr">>
    /\ new_mode = "both"
    /\ new_ports = <<>>
    /\ new_m_time_stamps = <<>>
    /\ new_m_mode = "unset"
    /\ new_pc = "unused"

DitherIdle ==
    /\ dither_nframes = <<>>
    /\ dither_has_para = TRUE
    /\ m_center = <<>>
    /\ dither_cubes_per_position = 1
    /\ dither_prepared = <<>>
    /\ dither_tags = <<>>
    /\ dither_out = <<>>
    /\ dither_i = 0
    /\ dither_pc = "unused"

-----------------------------------------------------------------------------
(* NoddingBackgroundModule *)

Modes == {"next", "previous", "both"}

TimeStamp(time, sky_or_science, index) ==
    [m_time |-> time, m_sky_or_science |-> sky_or_science, m_index |-> index]

\* the entries appended for the sky frames: index i of the sky port
SkyEntries(exp_no) ==
    [i \in 1..Len(exp_no) |-> TimeStamp(exp_no[i], "SKY", i - 1)]

\* the entries appended for the science exposures: slice(current, current+nframes[i])
ScienceEntries(exp_no, nframes) ==
    [i \in 1..Len(exp_no) |->
        LET current == SumInts(SubSeq(nframes, 1, i - 1))
        IN  TimeStamp(exp_no[i], "SCIENCE", <<current, current + nframes[i]>>)]

\* sorted(list, key=m_time): Python's sort is stable; insertion after the last
\* element whose key is not larger keeps equal keys in their original order
InsertInTimeOrder(sorted, e) ==
    LET n == Cardinality({k \in 1..Len(sorted) : sorted[k].m_time <= e.m_time})
    IN  SubSeq(sorted, 1, n) \o <<e>> \o SubSeq(sorted, n + 1, Len(sorted))

RECURSIVE SortedByTime(_)
SortedByTime(s) ==
    IF s = <<>> THEN <<>>
    ELSE InsertInTimeOrder(SortedByTime(SubSeq(s, 1, Len(s) - 1)), s[Len(s)])

\* _create_time_stamp_list: appends to the list the instance already holds
create_time_stamp_list(old, s_exp, sc_exp, sc_nframes) ==
    SortedByTime(old \o SkyEntries(s_exp) \o ScienceEntries(sc_exp, sc_nframes))

IsSky(ts, i) == At(ts, i).m_sky_or_science = "SKY"

\* for i in range(start, len(ts)): first SKY position, -1 when the loop ends
RECURSIVE ForwardScan(_, _)
ForwardScan(ts, i) ==
    IF i >= Len(ts) THEN 0 - 1
    ELSE IF IsSky(ts, i) THEN i
    ELSE ForwardScan(ts, i + 1)

\* for i in range(0, start) without reversed(): the SKY entry farthest back
BackwardScanNotReversed(ts, i) ==
    LET hits == {p \in 0..i : At(ts, p).m_sky_or_science = "SKY"}
    IN  IF hits = {} THEN 0 - 1 ELSE CHOOSE p \in hits : \A q \in hits : p <= q

\* for i in reversed(range(0, start)): first SKY position, -1 when the loop ends
RECURSIVE BackwardScan(_, _)
BackwardScan(ts, i) ==
    IF i < 0 THEN 0 - 1
    ELSE IF IsSky(ts, i) THEN i
    ELSE BackwardScan(ts, i - 1)

\* The two closures of calc_sky_frame.  The result is the position of the SKY
\* entry whose frame is returned and the number of fallback calls made;
\* position -1 stands for mutual recursion that is still going on after
\* MaxFallbacks calls (it ends in Python's RuntimeError).
RECURSIVE search_for_next_sky(_, _, _), search_for_previous_sky(_, _, _)
search_for_next_sky(ts, index_of_science_data, depth) ==
    LET p == ForwardScan(ts, index_of_science_data)
    IN  IF p >= 0 THEN [pos |-> p, fallbacks |-> depth]
        ELSE IF depth >= MaxFallbacks THEN [pos |-> 0 - 1, fallbacks |-> depth]
        ELSE search_for_previous_sky(ts, index_of_science_data, depth + 1)

search_for_previous_sky(ts, index_of_science_data, depth) ==
    LET p == BackwardScan(ts, index_of_science_data - 1)
    IN  IF p >= 0 THEN [pos |-> p, fallbacks |-> depth]
        ELSE IF depth >= MaxFallbacks THEN [pos |-> 0 - 1, fallbacks |-> depth]
        ELSE search_for_next_sky(ts, index_of_science_data, depth + 1)

\* self.m_sky_in_port[self.m_time_stamps[i].m_index, :, :]
SkyFrameAt(ts, sky, p) == At(sky, At(ts, p).m_index)

\* lines 1083-1092 of calc_sky_frame: the dispatch on the mode; [err, frame]
resolve_sky(ts, sky, mode, index_of_science_data) ==
    LET nxt == search_for_next_sky(ts, index_of_science_data, 0)
        prv == search_for_previous_sky(ts, index_of_science_data, 0)
    IN  CASE mode = "next" ->
               IF nxt.pos < 0 THEN [err |-> "RuntimeError", frame |-> NaN]
               ELSE [err |-> "none", frame |-> SkyFrameAt(ts, sky, nxt.pos)]
          [] mode = "previous" ->
               IF prv.pos < 0 THEN [err |-> "RuntimeError", frame |-> NaN]
               ELSE [err |-> "none", frame |-> SkyFrameAt(ts, sky, prv.pos)]
          [] mode = "both" ->
               IF prv.pos < 0 \/ nxt.pos < 0
               THEN [err |-> "RuntimeError", frame |-> NaN]
               ELSE [err |-> "none",
                     frame |-> Average2(SkyFrameAt(ts, sky, prv.pos),
                                        SkyFrameAt(ts, sky, nxt.pos))]

HasSky(ts) == \E k \in 1..Len(ts) : ts[k].m_sky_or_science = "SKY"

\* calc_sky_frame with a zero sky frame where the list holds no SKY entry
calc_sky_frame_zero_default(ts, sky, mode, index_of_science_data) ==
    IF ~ HasSky(ts)
    THEN [err |-> "none", frame |-> FromInt(0)]
    ELSE resolve_sky(ts, sky, mode, index_of_science_data)

\* calc_sky_frame without the guard: the search starts on any list
calc_sky_frame_unguarded(ts, sky, mode, index_of_science_data) ==
    resolve_sky(ts, sky, mode, index_of_science_data)

\* calc_sky_frame: the guard of lines 1063-1065, then the dispatch
calc_sky_frame(ts, sky, mode, index_of_science_data) ==
    IF ~ HasSky(ts)
    THEN [err |-> "ValueError", frame |-> NaN]
    ELSE resolve_sky(ts, sky, mode, index_of_science_data)

\* The contents of the two input tags.  Sky frame k holds pixel 10*(k+1) and
\* science frame k pixel 100+k, so that a frame identifies its index.
SkyPixels(n) == [k \in 1..n |-> FromInt(10 * k)]
SciencePixels(n) == [k \in 1..n |-> FromInt(99 + k)]

NFramesChoices == {1, 2}

SeqsUpTo(S, lo, hi) == UNION {[1..n -> S] : n \in lo..hi}

\* the module has been constructed and is never run
NodIdle ==
    /\ sky_exp_no = <<>>
    /\ sky_arr = <<>>
    /\ science_exp_no = <<>>
    /\ science_nframes = <<>>
    /\ science_arr = <<>>
    /\ m_mode = "both"
    /\ m_time_stamps = <<>>
    /\ nod_out = <<>>
    /\ nod_pc = "unused"
    /\ nod_i = 0
    /\ nod_runs = 0

\* NFRAMES of n science exposures: one frame each, or one and two frames in turn
ScienceNFrames(n) == {[k \in 1..n |-> 1], [k \in 1..n |-> 1 + (k % 2)]}

InitNodding ==
    /\ SimpleIdle
    /\ MeanIdle
    /\ PrepIdle
    /\ PcaIdle
    /\ FpIdle
    /\ SxIdle
    /\ NewIdle
    /\ DitherIdle
    /\ sky_exp_no \in SeqsUpTo(1..MaxExpNo, 0, MaxSky)
    /\ sky_arr = SkyPixels(Len(sky_exp_no))
    /\ science_exp_no \in SeqsUpTo(1..MaxExpNo, 1, MaxScience)
    /\ science_nframes \in ScienceNFrames(Len(science_exp_no))
    /\ science_arr = SciencePixels(SumInts(science_nframes))
    /\ m_mode \in Modes
    /\ m_time_stamps = <<>>
    /\ nod_out = <<FromInt(7)>>
    /\ nod_pc = "idle"
    /\ nod_i = 0
    /\ nod_runs = 0

\* run, lines 1102-1105: build the list, clear the output tag
NodRunBegin ==
    /\ nod_pc \in {"idle", "done"}
    /\ nod_runs < MaxRuns
    /\ m_time_stamps' = create_time_stamp_list(m_time_stamps, sky_exp_no,
                                               science_exp_no, science_nframes)
    /\ nod_out' = <<>>
    /\ nod_pc' = "loop"
    /\ nod_i' = 0
    /\ nod_runs' = nod_runs + 1
    /\ UNCHANGED <<sky_arr, sky_exp_no, science_arr, science_exp_no,
                   science_nframes, m_mode>>
    /\ UNCHANGED notNodVars

\* one iteration of the for loop over a SKY entry: continue
NodSkipSky ==
    /\ nod_pc = "loop"
    /\ nod_i < Len(m_time_stamps)
    /\ IsSky(m_time_stamps, nod_i)
    /\ nod_i' = nod_i + 1
    /\ UNCHANGED <<sky_arr, sky_exp_no, science_arr, science_exp_no,
                   science_nframes, m_time_stamps, m_mode, nod_out, nod_pc,
                   nod_runs>>
    /\ UNCHANGED notNodVars

\* one iteration over a SCIENCE entry: append science - sky
NodSubtract ==
    /\ nod_pc = "loop"
    /\ nod_i < Len(m_time_stamps)
    /\ ~ IsSky(m_time_stamps, nod_i)
    /\ LET sky == calc_sky_frame(m_time_stamps, sky_arr, m_mode, nod_i)
           idx == At(m_time_stamps, nod_i).m_index
           science == Slice(science_arr, idx[1], idx[2])
       IN  /\ sky.err = "none"
           /\ nod_out' = nod_out \o SubtractFromAll(science, sky.frame)
    /\ nod_i' = nod_i + 1
    /\ UNCHANGED <<sky_arr, sky_exp_no, science_arr, science_exp_no,
                   science_nframes, m_time_stamps, m_mode, nod_pc, nod_runs>>
    /\ UNCHANGED notNodVars

\* one iteration over a SCIENCE entry in which calc_sky_frame raises
NodRaise ==
    /\ nod_pc = "loop"
    /\ nod_i < Len(m_time_stamps)
    /\ ~ IsSky(m_time_stamps, nod_i)
    /\ calc_sky_frame(m_time_stamps, sky_arr, m_mode, nod_i).err # "none"
    /\ nod_pc' = "error"
    /\ UNCHANGED <<sky_arr, sky_exp_no, science_arr, science_exp_no,
                   science_nframes, m_time_stamps, m_mode, nod_out, nod_i,
                   nod_runs>>
    /\ UNCHANGED notNodVars

\* the loop is over: attributes copied, port closed
NodRunEnd ==
    /\ nod_pc = "loop"
    /\ nod_i = Len(m_time_stamps)
    /\ nod_pc' = "done"
    /\ UNCHANGED <<sky_arr, sky_exp_no, science_arr, science_exp_no,
                   science_nframes, m_time_stamps, m_mode, nod_out, nod_i,
                   nod_runs>>
    /\ UNCHANGED notNodVars

NextNodding ==
    \/ NodRunBegin
    \/ NodSkipSky
    \/ NodSubtract
    \/ NodRaise
    \/ NodRunEnd

SpecNodding == InitNodding /\ [][NextNodding]_vars

-----------------------------------------------------------------------------
(* SimpleBackgroundSubtractionModule *)

\* index of the background frame with the shift subtracted instead of added
BackgroundIndexShiftedBack(i, shift, number_of_frames) ==
    (i - shift) % number_of_frames

\* (i + self.m_star_prs_shift) % number_of_frames
BackgroundIndex(i, shift, number_of_frames) == (i + shift) % number_of_frames

\* self.m_image_in_port.get_shape()[0]
NumberOfFrames(db, tag) == Len(db[tag])

\* self.m_image_in_port[i] - self.m_image_in_port[(i + shift) % number_of_frames]
SimpleTmpRes(db, tag, i, shift) ==
    RSub(At(db[tag], i),
         At(db[tag], BackgroundIndex(i, shift, NumberOfFrames(db, tag))))

SimplePixels == {FromInt(v) : v \in 0..MaxSimplePixel}

InitSimple ==
    /\ NodIdle
    /\ MeanIdle
    /\ PrepIdle
    /\ PcaIdle
    /\ FpIdle
    /\ SxIdle
    /\ NewIdle
    /\ DitherIdle
    /\ simple_in_tag = "im_arr"
    /\ simple_out_tag \in SimpleTags
    /\ \E stack \in SeqsUpTo(SimplePixels, 1, MaxSimpleFrames),
          old \in {<<>>, <<FromInt(7), FromInt(7)>>} :
          /\ simple_db = [t \in SimpleTags |->
                             IF t = simple_in_tag THEN stack ELSE old]
          /\ simple_orig = stack
    /\ simple_shift \in (0 - MaxSimpleShift)..MaxSimpleShift
    /\ simple_pc = "start"
    /\ simple_i = 0

\* lines 267-276: the first subtraction sets up the output
SimpleFirst ==
    /\ simple_pc = "start"
    /\ LET tmp_res == SimpleTmpRes(simple_db, simple_in_tag, 0, simple_shift)
       IN  simple_db' =
              IF simple_in_tag = simple_out_tag
              THEN [simple_db EXCEPT ![simple_out_tag][1] = tmp_res]
              ELSE [simple_db EXCEPT ![simple_out_tag] = <<tmp_res>>]
    /\ simple_pc' = "loop"
    /\ simple_i' = 1
    /\ UNCHANGED <<simple_in_tag, simple_out_tag, simple_shift, simple_orig>>
    /\ UNCHANGED notSimpleVars

\* lines 279-286: one iteration of the loop over the rest of the data
SimpleStep ==
    /\ simple_pc = "loop"
    /\ simple_i < Len(simple_orig)
    /\ LET tmp_res == SimpleTmpRes(simple_db, simple_in_tag, simple_i, simple_shift)
       IN  simple_db' =
              IF simple_in_tag = simple_out_tag
              THEN [simple_db EXCEPT ![simple_out_tag][simple_i + 1] = tmp_res]
              ELSE [simple_db EXCEPT ![simple_out_tag] = Append(@, tmp_res)]
    /\ simple_i' = simple_i + 1
    /\ UNCHANGED <<simple_in_tag, simple_out_tag, simple_shift, simple_pc,
                   simple_orig>>
    /\ UNCHANGED notSimpleVars

\* lines 288-293: attributes copied, port closed
SimpleEnd ==
    /\ simple_pc = "loop"
    /\ simple_i = Len(simple_orig)
    /\ simple_pc' = "done"
    /\ UNCHANGED <<simple_db, simple_in_tag, simple_out_tag, simple_shift,
                   simple_i, simple_orig>>
    /\ UNCHANGED notSimpleVars

NextSimple ==
    \/ SimpleFirst
    \/ SimpleStep
    \/ SimpleEnd

SpecSimple == InitSimple /\ [][NextSimple]_vars

-----------------------------------------------------------------------------
(* MeanBackgroundSubtractionModule *)

IntShift(n) == [kind |-> "int", int |-> n, array |-> <<>>]
ArrayShift(a) == [kind |-> "ndarray", int |-> 0, array |-> a]
NoShift == [kind |-> "None", int |-> 0, array |-> <<>>]

\* lines 68-69: NFRAMES stands in for a star_pos_shift of None
ShiftInUse(shift, nframes) ==
    IF shift.kind = "None" THEN ArrayShift(nframes) ELSE shift

\* np.sum(self.m_star_prs_shift[lo:hi])
SumOfCubes(a, lo, hi) == SumInts(Slice(a, lo, hi))

\* the checks with the factor 2 left out
MeanInputTooSmallForOneShift(shift, cubes_per_position, number_of_frames) ==
    IF shift.kind = "ndarray"
    THEN cubes_per_position > Len(shift.array)
    ELSE number_of_frames < shift.int

\* lines 74-77 and 90-91: the two checks of the size of the input
MeanInputTooSmall(shift, cubes_per_position, number_of_frames) ==
    IF shift.kind = "ndarray"
    THEN 2 * cubes_per_position > Len(shift.array)
    ELSE number_of_frames < shift.int * 2

\* lines 80-83
NumStacks(shift, number_of_frames) ==
    IF shift.kind = "ndarray" THEN Len(shift.array)
    ELSE number_of_frames \div shift.int

\* line 159-160: int(np.ceil(number_of_frames / star_pos_shift)) - 2, the
\* division being Python 2's division of two ints
Top(shift, number_of_frames) == (number_of_frames \div shift.int) - 2

\* lines 86-99: the mean of the frames after the first stack
FirstMean(data, shift, cubes_per_position) ==
    IF shift.kind = "ndarray"
    THEN NpMean(Slice(data, SumOfCubes(shift.array, 0, cubes_per_position),
                            SumOfCubes(shift.array, 0, 2 * cubes_per_position)))
    ELSE NpMean(Slice(data, shift.int, 2 * shift.int))

\* lines 113-128: the frames of the first stack but the first
RestOfFirstStack(data, shift, cubes_per_position) ==
    IF shift.kind = "ndarray"
    THEN Slice(data, 1, SumOfCubes(shift.array, 0, cubes_per_position))
    ELSE Slice(data, 1, shift.int)

\* An iteration of the NFRAMES loop that looks for following cubes after the
\* last group as well
NFramesIterationAlwaysBoth(data, a, c, i) ==
    LET prev_mean == NpMean(Slice(data, SumOfCubes(a, 0, i - c), SumOfCubes(a, 0, i)))
        next_mean == NpMean(Slice(data, SumOfCubes(a, 0, i + c), SumOfCubes(a, 0, i + 2 * c)))
    IN  SubtractFromAll(Slice(data, SumOfCubes(a, 0, i), SumOfCubes(a, 0, i + c)),
                        Average2(prev_mean, next_mean))

\* lines 133-155: the frames appended by iteration i of the NFRAMES loop
NFramesIteration(data, a, c, i) ==
    LET prev_start == SumOfCubes(a, 0, i - c)
        prev_end == SumOfCubes(a, 0, i)
        next_start == SumOfCubes(a, 0, i + c)
        next_end == SumOfCubes(a, 0, i + 2 * c)
        prev_mean == NpMean(Slice(data, prev_start, prev_end))
        tmp_mean == IF i < Len(a) - c
                    THEN Average2(prev_mean, NpMean(Slice(data, next_start, next_end)))
                    ELSE prev_mean
    IN  SubtractFromAll(Slice(data, prev_end, next_start), tmp_mean)

\* lines 165-179: the frames appended by iteration i of the fixed-shift loop
ShiftIteration(data, shift, i) ==
    LET next_mean == NpMean(Slice(data, (i + 1) * shift, (i + 2) * shift))
        tmp_mean == Average2(next_mean, NpMean(Slice(data, (i - 1) * shift, i * shift)))
    IN  SubtractFromAll(Slice(data, i * shift, (i + 1) * shift), tmp_mean)

\* lines 186-200: the stack before the last one
OneBeforeLast(data, shift, top, number_of_frames) ==
    LET prev_mean == NpMean(Slice(data, (top - 1) * shift, top * shift))
        tmp_mean == Average2(prev_mean,
                             NpMean(Slice(data, (top + 1) * shift, number_of_frames)))
    IN  SubtractFromAll(Slice(data, top * shift, (top + 1) * shift), tmp_mean)

\* lines 206-214: the last stack
LastStack(data, shift, top, number_of_frames) ==
    LET tmp_mean == NpMean(Slice(data, top * shift, (top + 1) * shift))
    IN  SubtractFromAll(Slice(data, (top + 1) * shift, number_of_frames), tmp_mean)

MeanPixels == {FromInt(v) : v \in 0..MaxMeanPixel}

\* the NFRAMES arrays of a stack of n frames
CubeLengths(n) ==
    {a \in UNION {[1..m -> NFramesChoices] : m \in 1..n} : SumInts(a) = n}

InitMean ==
    /\ NodIdle
    /\ SimpleIdle
    /\ PrepIdle
    /\ PcaIdle
    /\ FpIdle
    /\ SxIdle
    /\ NewIdle
    /\ DitherIdle
    /\ mean_in \in SeqsUpTo(MeanPixels, 1, MaxMeanFrames)
    /\ mean_nframes \in CubeLengths(Len(mean_in))
    /\ m_star_prs_shift \in {NoShift} \cup {IntShift(n) : n \in 1..MaxMeanShift}
    /\ m_cubes_per_position \in 1..MaxCubesPerPosition
    /\ m_star_prs_shift.kind = "int" =>
          (m_cubes_per_position = 1 /\ mean_nframes = [k \in 1..Len(mean_in) |-> 1])
    /\ mean_out \in {<<>>, <<FromInt(7)>>}
    /\ mean_out_orig = mean_out
    /\ mean_pc = "start"
    /\ mean_i = 0

\* lines 67-91 when a check of the input fails: ValueError
MeanRaise ==
    /\ mean_pc = "start"
    /\ m_star_prs_shift' = ShiftInUse(m_star_prs_shift, mean_nframes)
    /\ MeanInputTooSmall(m_star_prs_shift', m_cubes_per_position, Len(mean_in))
    /\ mean_pc' = "ValueError"
    /\ UNCHANGED <<mean_in, mean_out_orig, mean_nframes, m_cubes_per_position,
                   mean_out, mean_i>>
    /\ UNCHANGED notMeanVars

\* lines 67-107: the first frame sets up the output
MeanFirstFrame ==
    /\ mean_pc = "start"
    /\ m_star_prs_shift' = ShiftInUse(m_star_prs_shift, mean_nframes)
    /\ ~ MeanInputTooSmall(m_star_prs_shift', m_cubes_per_position, Len(mean_in))
    /\ mean_out' = <<RSub(At(mean_in, 0),
                          FirstMean(mean_in, m_star_prs_shift', m_cubes_per_position))>>
    /\ mean_pc' = "first"
    /\ UNCHANGED <<mean_in, mean_out_orig, mean_nframes, m_cubes_per_position, mean_i>>
    /\ UNCHANGED notMeanVars

\* lines 112-128: the rest of the first stack
MeanFirstStack ==
    /\ mean_pc = "first"
    /\ mean_out' = mean_out \o
          SubtractFromAll(RestOfFirstStack(mean_in, m_star_prs_shift, m_cubes_per_position),
                          FirstMean(mean_in, m_star_prs_shift, m_cubes_per_position))
    /\ mean_pc' = "loop"
    /\ mean_i' = IF m_star_prs_shift.kind = "ndarray" THEN m_cubes_per_position ELSE 1
    /\ UNCHANGED <<mean_in, mean_out_orig, mean_nframes, m_star_prs_shift, m_cubes_per_position>>
    /\ UNCHANGED notMeanVars

\* lines 132-155: one iteration of the loop over the cubes
MeanNFramesStep ==
    /\ mean_pc = "loop"
    /\ m_star_prs_shift.kind = "ndarray"
    /\ mean_i < NumStacks(m_star_prs_shift, Len(mean_in))
    /\ mean_out' = mean_out \o NFramesIteration(mean_in, m_star_prs_shift.array,
                                                m_cubes_per_position, mean_i)
    /\ mean_i' = mean_i + m_cubes_per_position
    /\ UNCHANGED <<mean_in, mean_out_orig, mean_nframes, m_star_prs_shift, m_cubes_per_position,
                   mean_pc>>
    /\ UNCHANGED notMeanVars

\* lines 162-179: one iteration of the loop over the stacks 1 .. top-1
MeanShiftStep ==
    /\ mean_pc = "loop"
    /\ m_star_prs_shift.kind = "int"
    /\ mean_i < Top(m_star_prs_shift, Len(mean_in))
    /\ mean_out' = mean_out \o ShiftIteration(mean_in, m_star_prs_shift.int, mean_i)
    /\ mean_i' = mean_i + 1
    /\ UNCHANGED <<mean_in, mean_out_orig, mean_nframes, m_star_prs_shift, m_cubes_per_position,
                   mean_pc>>
    /\ UNCHANGED notMeanVars

\* lines 181-200: the stack before the last one
MeanOneBefore ==
    /\ mean_pc = "loop"
    /\ m_star_prs_shift.kind = "int"
    /\ mean_i >= Top(m_star_prs_shift, Len(mean_in))
    /\ mean_out' = mean_out \o
          OneBeforeLast(mean_in, m_star_prs_shift.int,
                        Top(m_star_prs_shift, Len(mean_in)), Len(mean_in))
    /\ mean_pc' = "last"
    /\ UNCHANGED <<mean_in, mean_out_orig, mean_nframes, m_star_prs_shift, m_cubes_per_position,
                   mean_i>>
    /\ UNCHANGED notMeanVars

\* line 186 where the store refuses a selection in reverse order (h5py's
\* "Reverse-order selections are not allowed") instead of returning no frames
MeanOneBeforeRaise ==
    /\ mean_pc = "loop"
    /\ m_star_prs_shift.kind = "int"
    /\ mean_i >= Top(m_star_prs_shift, Len(mean_in))
    /\ LET top == Top(m_star_prs_shift, Len(mean_in))
       IN  ReverseOrder(mean_in, (top - 1) * m_star_prs_shift.int,
                                 top * m_star_prs_shift.int)
    /\ mean_pc' = "SelectionError"
    /\ UNCHANGED <<mean_in, mean_out_orig, mean_nframes, m_star_prs_shift, m_cubes_per_position,
                   mean_out, mean_i>>
    /\ UNCHANGED notMeanVars

\* lines 202-214: the last stack
MeanLast ==
    /\ mean_pc = "last"
    /\ mean_out' = mean_out \o
          LastStack(mean_in, m_star_prs_shift.int,
                    Top(m_star_prs_shift, Len(mean_in)), Len(mean_in))
    /\ mean_pc' = "finish"
    /\ UNCHANGED <<mean_in, mean_out_orig, mean_nframes, m_star_prs_shift, m_cubes_per_position,
                   mean_i>>
    /\ UNCHANGED notMeanVars

\* lines 217-222: attributes copied, port closed
MeanEnd ==
    /\ \/ mean_pc = "finish"
       \/ /\ mean_pc = "loop"
          /\ m_star_prs_shift.kind = "ndarray"
          /\ mean_i >= NumStacks(m_star_prs_shift, Len(mean_in))
    /\ mean_pc' = "done"
    /\ UNCHANGED <<mean_in, mean_out_orig, mean_nframes, m_star_prs_shift, m_cubes_per_position,
                   mean_out, mean_i>>
    /\ UNCHANGED notMeanVars

NextMean ==
    \/ MeanRaise
    \/ MeanFirstFrame
    \/ MeanFirstStack
    \/ MeanNFramesStep
    \/ MeanShiftStep
    \/ MeanOneBefore
    \/ MeanOneBeforeRaise
    \/ MeanLast
    \/ MeanEnd

SpecMean == InitMean /\ [][NextMean]_vars

-----------------------------------------------------------------------------
(* PCABackgroundPreparationModule *)

\* lines 367-370: the mean of every cube
CubeMeans(data, nframes) ==
    [i \in 1..Len(nframes) |->
        LET count == SumInts(SubSeq(nframes, 1, i - 1))
        IN  NpMean(Slice(data, count, count + nframes[i]))]

\* bg_frames[i:i+c] = False
ClearFlags(flags, i, c) ==
    [k \in 1..Len(flags) |-> IF i <= k - 1 /\ k - 1 < i + c THEN FALSE ELSE flags[k]]

\* the flagging loop with a stride of one cube group instead of a dither cycle
RECURSIVE FlagStarCubesEveryGroup(_, _, _, _)
FlagStarCubesEveryGroup(flags, i, c, d) ==
    IF i >= Len(flags) THEN flags
    ELSE FlagStarCubesEveryGroup(ClearFlags(flags, i, c), i + c, c, d)

\* lines 374-376: for i in range(first_star_cube, size, cubes_per_position*dither_positions)
RECURSIVE FlagStarCubes(_, _, _, _)
FlagStarCubes(flags, i, c, d) ==
    IF i >= Len(flags) THEN flags
    ELSE FlagStarCubes(ClearFlags(flags, i, c), i + c * d, c, d)

\* lines 373-376
BgFrames(n, d, c, f) == FlagStarCubes([k \in 1..n |-> TRUE], f, c, d)

\* line 378: np.nonzero(bg_frames)[0]
BgIndices(flags) == {k \in 0..(Len(flags) - 1) : At(flags, k)}

Found(means, index) == [bound |-> TRUE, index |-> index, value |-> At(means, index)]

\* lines 423-425: bg_prev is assigned only when a background cube precedes cube i
PrevAfterSearch(old, flags, means, i) ==
    LET before == {b \in BgIndices(flags) : b < i}
    IN  IF before # {} THEN Found(means, Max(before)) ELSE old

\* lines 428-430: bg_next is assigned only when a background cube follows cube i
NextAfterSearch(old, flags, means, i) ==
    LET after == {b \in BgIndices(flags) : b > i}
    IN  IF after # {} THEN Found(means, Min(after)) ELSE old

\* the selection with the two ends exchanged
SelectBackgroundEndsExchanged(i, n, prev, next) ==
    IF i = 0 THEN [err |-> ~ prev.bound, value |-> prev.value]
    ELSE IF i = n - 1 THEN [err |-> ~ next.bound, value |-> next.value]
    ELSE [err |-> ~ (prev.bound /\ next.bound),
          value |-> Average2(prev.value, next.value)]

\* lines 433-440: reading a local that was never assigned raises
SelectBackground(i, n, prev, next) ==
    IF i = 0 THEN [err |-> ~ next.bound, value |-> next.value]
    ELSE IF i = n - 1 THEN [err |-> ~ prev.bound, value |-> prev.value]
    ELSE [err |-> ~ (prev.bound /\ next.bound),
          value |-> Average2(prev.value, next.value)]

\* frame k of the input holds pixel (k+1)^2 and parallactic angle 10*(k+1)
PrepPixels(n) == [k \in 1..n |-> FromInt(k * k)]
PrepAngles(n) == [k \in 1..n |-> 10 * k]

FrameShapes == {<<2, 2>>, <<2, 3>>}

\* NFRAMES of the input: cubes of one frame, cubes of two frames, or both kinds
PrepCubeLengths ==
    UNION {{[k \in 1..n |-> 1], [k \in 1..n |-> 2], [k \in 1..n |-> 1 + (k % 2)]} :
           n \in 1..MaxPrepCubes}

\* what the two output tags hold before the run: nothing, or the frames and
\* attributes an earlier run of the pipeline left there
PrepOldOutputs ==
    {[data |-> <<>>, attrs |-> NoAttributes],
     [data |-> <<FromInt(7)>>, attrs |-> [NEW_PARA |-> <<5>>, NFRAMES |-> <<1>>]]}

\* copy_attributes_from_input_port followed by add_attribute for NEW_PARA and
\* NFRAMES: the two values added last are the ones the tag keeps
AttributesAfterUpdate(parang_in, nframes_in, parang, nframes) ==
    LET copied == [NEW_PARA |-> parang_in, NFRAMES |-> nframes_in]
    IN  [copied EXCEPT !.NEW_PARA = parang, !.NFRAMES = nframes]

InitPrep ==
    /\ NodIdle
    /\ SimpleIdle
    /\ MeanIdle
    /\ PcaIdle
    /\ FpIdle
    /\ SxIdle
    /\ NewIdle
    /\ DitherIdle
    /\ prep_nframes \in PrepCubeLengths
    /\ prep_in = PrepPixels(SumInts(prep_nframes))
    /\ prep_shape \in FrameShapes
    /\ prep_parang = PrepAngles(SumInts(prep_nframes))
    /\ prep_has_para \in BOOLEAN
    /\ m_dither_positions \in 1..MaxDitherPositions
    /\ prep_cubes_per_position \in 1..MaxCubesPerPosition
    /\ m_first_star_cube \in 0..MaxFirstStarCube
    /\ cube_mean = <<>>
    /\ bg_frames = <<>>
    /\ star_init = FALSE
    /\ background_init = FALSE
    /\ \E old \in PrepOldOutputs :
          /\ star_out = old.data
          /\ background_out = old.data
          /\ star_attrs = old.attrs
          /\ background_attrs = old.attrs
    /\ star_parang = <<>>
    /\ star_nframes = <<>>
    /\ background_parang = <<>>
    /\ background_nframes = <<>>
    /\ bg_prev = Unbound
    /\ bg_next = Unbound
    /\ prep_count = 0
    /\ prep_i = 0
    /\ prep_pc = "start"
    /\ prep_background = <<>>

prepInputs == <<prep_in, prep_shape, prep_nframes, prep_parang, prep_has_para,
                m_dither_positions, prep_cubes_per_position, m_first_star_cube>>

\* A check of the attributes that finds NEW_PARA whatever the tag holds
ParaFoundAlways(has_para) == FALSE

\* line 356: "NEW_PARA" not in get_all_non_static_attributes()
ParaMissing(has_para) == ~ has_para

\* lines 356-358: NEW_PARA is missing
PrepRaiseNoPara ==
    /\ prep_pc = "start"
    /\ ParaMissing(prep_has_para)
    /\ prep_pc' = "ValueError"
    /\ UNCHANGED <<prepInputs, cube_mean, bg_frames, star_init, background_init,
                   star_out, background_out, star_parang, star_nframes,
                   background_parang, background_nframes, bg_prev, bg_next,
                   prep_count, prep_i, prep_background>>
    /\ UNCHANGED <<star_attrs, background_attrs>>
    /\ UNCHANGED notPrepVars

\* lines 363-369: cube_mean is allocated with rows and columns exchanged, and
\* the first assignment cube_mean[i,] = ... cannot broadcast a frame that is
\* not square
PrepRaiseShape ==
    /\ prep_pc = "start"
    /\ ~ ParaMissing(prep_has_para)
    /\ prep_shape[1] # prep_shape[2]
    /\ prep_pc' = "ValueError"
    /\ UNCHANGED <<prepInputs, cube_mean, bg_frames, star_init, background_init,
                   star_out, background_out, star_parang, star_nframes,
                   background_parang, background_nframes, bg_prev, bg_next,
                   prep_count, prep_i, prep_background>>
    /\ UNCHANGED <<star_attrs, background_attrs>>
    /\ UNCHANGED notPrepVars

\* lines 356-392: the means of the cubes, the flags, the empty accumulators
PrepSetup ==
    /\ prep_pc = "start"
    /\ ~ ParaMissing(prep_has_para)
    /\ prep_shape[1] = prep_shape[2]
    /\ cube_mean' = CubeMeans(prep_in, prep_nframes)
    /\ bg_frames' = BgFrames(Len(prep_nframes), m_dither_positions,
                            prep_cubes_per_position, m_first_star_cube)
    /\ prep_pc' = "loop"
    /\ UNCHANGED <<prepInputs, star_init, background_init, star_out,
                   background_out, star_parang, star_nframes, background_parang,
                   background_nframes, bg_prev, bg_next, prep_count, prep_i,
                   prep_background>>
    /\ UNCHANGED <<star_attrs, background_attrs>>
    /\ UNCHANGED notPrepVars

\* self.m_image_in_port[count:count+item,] and parang[count:count+item]
PrepCubeFrames == Slice(prep_in, prep_count, prep_count + At(prep_nframes, prep_i))
PrepCubeAngles == Slice(prep_parang, prep_count, prep_count + At(prep_nframes, prep_i))

\* lines 393-417, 458: one iteration over a background cube
PrepBackgroundCube ==
    /\ prep_pc = "loop"
    /\ prep_i < Len(prep_nframes)
    /\ At(bg_frames, prep_i)
    /\ LET background == At(cube_mean, prep_i)
       IN  /\ background_out' =
                 IF background_init
                 THEN background_out \o SubtractFromAll(PrepCubeFrames, background)
                 ELSE SubtractFromAll(PrepCubeFrames, background)
           /\ prep_background' = Append(prep_background, background)
    /\ background_parang' =
          IF background_init THEN background_parang \o PrepCubeAngles
          ELSE PrepCubeAngles
    /\ background_nframes' =
          IF background_init THEN Append(background_nframes, At(prep_nframes, prep_i))
          ELSE <<At(prep_nframes, prep_i)>>
    /\ background_init' = TRUE
    /\ prep_count' = prep_count + At(prep_nframes, prep_i)
    /\ prep_i' = prep_i + 1
    /\ UNCHANGED <<prepInputs, cube_mean, bg_frames, star_init, star_out,
                   star_parang, star_nframes, bg_prev, bg_next, prep_pc>>
    /\ UNCHANGED <<star_attrs, background_attrs>>
    /\ UNCHANGED notPrepVars

\* lines 393-396, 420-458: one iteration over a star cube
PrepStarCube ==
    /\ prep_pc = "loop"
    /\ prep_i < Len(prep_nframes)
    /\ ~ At(bg_frames, prep_i)
    /\ bg_prev' = PrevAfterSearch(bg_prev, bg_frames, cube_mean, prep_i)
    /\ bg_next' = NextAfterSearch(bg_next, bg_frames, cube_mean, prep_i)
    /\ LET background == SelectBackground(prep_i, Len(prep_nframes), bg_prev', bg_next')
       IN  /\ ~ background.err
           /\ star_out' =
                 IF star_init
                 THEN star_out \o SubtractFromAll(PrepCubeFrames, background.value)
                 ELSE SubtractFromAll(PrepCubeFrames, background.value)
           /\ prep_background' = Append(prep_background, background.value)
    /\ star_parang' = IF star_init THEN star_parang \o PrepCubeAngles ELSE PrepCubeAngles
    /\ star_nframes' =
          IF star_init THEN Append(star_nframes, At(prep_nframes, prep_i))
          ELSE <<At(prep_nframes, prep_i)>>
    /\ star_init' = TRUE
    /\ prep_count' = prep_count + At(prep_nframes, prep_i)
    /\ prep_i' = prep_i + 1
    /\ UNCHANGED <<prepInputs, cube_mean, bg_frames, background_init,
                   background_out, background_parang, background_nframes, prep_pc>>
    /\ UNCHANGED <<star_attrs, background_attrs>>
    /\ UNCHANGED notPrepVars

\* lines 433-440 reading bg_prev or bg_next before any assignment:
\* UnboundLocalError
PrepStarCubeRaise ==
    /\ prep_pc = "loop"
    /\ prep_i < Len(prep_nframes)
    /\ ~ At(bg_frames, prep_i)
    /\ bg_prev' = PrevAfterSearch(bg_prev, bg_frames, cube_mean, prep_i)
    /\ bg_next' = NextAfterSearch(bg_next, bg_frames, cube_mean, prep_i)
    /\ SelectBackground(prep_i, Len(prep_nframes), bg_prev', bg_next').err
    /\ prep_pc' = "UnboundLocalError"
    /\ UNCHANGED <<prepInputs, cube_mean, bg_frames, star_init, background_init,
                   star_out, background_out, star_parang, star_nframes,
                   background_parang, background_nframes, prep_count, prep_i,
                   prep_background>>
    /\ UNCHANGED <<star_attrs, background_attrs>>
    /\ UNCHANGED notPrepVars

\* lines 460-487: the attributes of the two outputs, port closed
PrepEnd ==
    /\ prep_pc = "loop"
    /\ prep_i = Len(prep_nframes)
    /\ star_attrs' = AttributesAfterUpdate(prep_parang, prep_nframes,
                                           star_parang, star_nframes)
    /\ background_attrs' = AttributesAfterUpdate(prep_parang, prep_nframes,
                                                 background_parang, background_nframes)
    /\ prep_pc' = "done"
    /\ UNCHANGED <<prepInputs, cube_mean, bg_frames, star_init, background_init,
                   star_out, background_out, star_parang, star_nframes,
                   background_parang, background_nframes, bg_prev, bg_next,
                   prep_count, prep_i, prep_background>>
    /\ UNCHANGED notPrepVars

NextPrep ==
    \/ PrepRaiseNoPara
    \/ PrepRaiseShape
    \/ PrepSetup
    \/ PrepBackgroundCube
    \/ PrepStarCube
    \/ PrepStarCubeRaise
    \/ PrepEnd

SpecPrep == InitPrep /\ [][NextPrep]_vars

-----------------------------------------------------------------------------
(* PCABackgroundSubtractionModule, with one principal component *)

\* self.m_star_in_port[0,].shape: square frames of ImDim x ImDim pixels
ImDim == 2

\* a pixel is <<row, column>>; an image is a function on Pixels
Pixels == (0..(ImDim - 1)) \X (0..(ImDim - 1))

RECURSIVE SumOver(_, _)
SumOver(f, S) ==
    IF S = {} THEN 0
    ELSE LET p == CHOOSE q \in S : TRUE
         IN  f[p] + SumOver(f, S \ {p})

\* lines 550-563 and 572-573: xx_grid is the column and yy_grid the row of a
\* pixel; the mask is 0 where rr_grid < mask_radius and 1 elsewhere
Disk(cent_x, cent_y, radius_sq) ==
    [p \in Pixels |->
        IF (p[2] - cent_x) * (p[2] - cent_x) + (p[1] - cent_y) * (p[1] - cent_y)
              < radius_sq
        THEN 0 ELSE 1]

\* int(np.mean(row)) of a row <<a, b>> of non-negative numbers
IntMean(row) == (row[1] + row[2]) \div 2

\* _create_mask, lines 543-575. "mean": star_position[0] and star_position[1]
\* are the first two rows of the array, that is the (x, y) of the first two
\* frames, and indexing row 1 of an array of one row raises IndexError; the
\* result is one mask. "exact": one mask per frame.
create_mask(mask_position, radius_sq, position, num_frames) ==
    IF mask_position = "mean"
    THEN IF Len(position) < 2 THEN [err |-> TRUE, mask |-> <<>>]
         ELSE [err |-> FALSE,
               mask |-> <<Disk(IntMean(position[1]), IntMean(position[2]), radius_sq)>>]
    ELSE [err |-> FALSE,
          mask |-> [i \in 1..num_frames |->
                       Disk(position[i][1], position[i][2], radius_sq)]]

\* _create_basis, lines 577-592, for a background stack whose frames are
\* multiples of one image and pca_number = 1: the component is that image up to
\* a factor, and the fit below does not depend on the factor
create_basis(background) == background[1]

\* lines 607-612: the mask of frame i of a stack
MaskOfFrame(mask_position, mask, i) ==
    IF mask_position = "mean" THEN mask[1] ELSE mask[i]

\* lines 614-624 for one component: the least-squares coefficient of the masked
\* frame on the masked component, times the unmasked component
FitOfFrame(basis, frame_masked, mask) ==
    LET num == SumOver([p \in Pixels |-> basis[p] * mask[p] * frame_masked[p]], Pixels)
        den == SumOver([p \in Pixels |-> basis[p] * mask[p] * basis[p] * mask[p]], Pixels)
    IN  [p \in Pixels |-> Rat(num * basis[p], den)]

\* _model_background, lines 594-629
model_background(mask_position, basis, im_star_mask, mask) ==
    [i \in 1..Len(im_star_mask) |->
        FitOfFrame(basis, im_star_mask[i], MaskOfFrame(mask_position, mask, i))]

\* im_star*mask
TimesMask(mask_position, im_star, mask) ==
    [i \in 1..Len(im_star) |->
        [p \in Pixels |-> im_star[i][p] * MaskOfFrame(mask_position, mask, i)[p]]]

\* im_star-fit_im
MinusFit(im_star, fit_im) ==
    [i \in 1..Len(im_star) |-> [p \in Pixels |-> RSub(FromInt(im_star[i][p]), fit_im[i][p])]]

\* the masks of the frames of a stack, one per frame
MasksOfStack(mask_position, mask, n) ==
    [i \in 1..n |-> MaskOfFrame(mask_position, mask, i)]

\* line 658
PcaNumStacks(num_frames, memory) == num_frames \div memory

\* the background image, and star frame k with a star of brightness 5 at (x, y)
PcaBackgroundImage == [p \in Pixels |-> 1 + p[1] + 2 * p[2]]
PcaStarFrame(k, xy) ==
    [p \in Pixels |-> k * PcaBackgroundImage[p] + (IF p = <<xy[2], xy[1]>> THEN 5 ELSE 0)]

StarPositions == {<<0, 1>>, <<1, 1>>}
MaskRadiiSquared == {1, 2}
OldImage == [p \in Pixels |-> FromInt(7)]

InitPca ==
    /\ NodIdle
    /\ SimpleIdle
    /\ MeanIdle
    /\ PrepIdle
    /\ FpIdle
    /\ SxIdle
    /\ NewIdle
    /\ DitherIdle
    /\ star_position \in SeqsUpTo(StarPositions, 1, MaxPcaFrames)
    /\ pca_star = [k \in 1..Len(star_position) |-> PcaStarFrame(k, star_position[k])]
    /\ im_background = <<PcaBackgroundImage, [p \in Pixels |-> 2 * PcaBackgroundImage[p]]>>
    /\ image_memory \in 1..MaxMemory
    /\ m_mask_position \in {"mean", "exact"}
    /\ m_mask_radius_sq \in MaskRadiiSquared
    /\ m_residuals_out_tag \in BOOLEAN
    /\ subtracted_out \in {<<>>, <<OldImage>>}
    /\ residuals_out = <<>>
    /\ basis_pca = <<>>
    /\ pca_mask = <<>>
    /\ pca_i = 0
    /\ pca_pc = "start"
    /\ pca_masks = <<>>

pcaInputs == <<pca_star, star_position, im_background, image_memory,
               m_mask_position, m_mask_radius_sq, m_residuals_out_tag>>

\* lines 641-661: the basis and, for "mean", the mask of the run
PcaBegin ==
    /\ pca_pc = "start"
    /\ basis_pca' = create_basis(im_background)
    /\ IF m_mask_position = "mean"
       THEN LET made == create_mask(m_mask_position, m_mask_radius_sq,
                                    star_position, Len(pca_star))
            IN  /\ ~ made.err
                /\ pca_mask' = made.mask
       ELSE pca_mask' = pca_mask
    /\ pca_pc' = "loop"
    /\ UNCHANGED <<pcaInputs, subtracted_out, residuals_out, pca_i, pca_masks>>
    /\ UNCHANGED notPcaVars

\* line 661 when _create_mask raises
PcaBeginRaise ==
    /\ pca_pc = "start"
    /\ m_mask_position = "mean"
    /\ create_mask(m_mask_position, m_mask_radius_sq, star_position, Len(pca_star)).err
    /\ basis_pca' = create_basis(im_background)
    /\ pca_pc' = "IndexError"
    /\ UNCHANGED <<pcaInputs, subtracted_out, residuals_out, pca_mask, pca_i, pca_masks>>
    /\ UNCHANGED notPcaVars

\* lines 663-687: one stack of image_memory frames
PcaStack ==
    /\ pca_pc = "loop"
    /\ pca_i < PcaNumStacks(Len(pca_star), image_memory)
    /\ LET frame_start == pca_i * image_memory
           frame_end == pca_i * image_memory + image_memory
           im_star == Slice(pca_star, frame_start, frame_end)
           mask == IF m_mask_position = "exact"
                   THEN create_mask(m_mask_position, m_mask_radius_sq,
                                    Slice(star_position, frame_start, frame_end),
                                    frame_end - frame_start).mask
                   ELSE pca_mask
           im_star_mask == TimesMask(m_mask_position, im_star, mask)
           fit_im == model_background(m_mask_position, basis_pca, im_star_mask, mask)
       IN  /\ pca_mask' = mask
           /\ subtracted_out' =
                 IF pca_i = 0 THEN MinusFit(im_star, fit_im)
                 ELSE subtracted_out \o MinusFit(im_star, fit_im)
           /\ residuals_out' =
                 IF ~ m_residuals_out_tag THEN residuals_out
                 ELSE IF pca_i = 0 THEN fit_im
                 ELSE residuals_out \o fit_im
           /\ pca_masks' =
                 pca_masks \o MasksOfStack(m_mask_position, mask, Len(im_star))
    /\ pca_i' = pca_i + 1
    /\ UNCHANGED <<pcaInputs, basis_pca, pca_pc>>
    /\ UNCHANGED notPcaVars

\* lines 692-707: the frames left over after the last whole stack; the mask is
\* created again from the positions of these frames, whatever mask_position is
PcaRest ==
    /\ pca_pc = "loop"
    /\ pca_i = PcaNumStacks(Len(pca_star), image_memory)
    /\ Len(pca_star) % image_memory > 0
    /\ LET frame_start == PcaNumStacks(Len(pca_star), image_memory) * image_memory
           frame_end == Len(pca_star)
           im_star == Slice(pca_star, frame_start, frame_end)
           made == create_mask(m_mask_position, m_mask_radius_sq,
                               Slice(star_position, frame_start, frame_end),
                               frame_end - frame_start)
           im_star_mask == TimesMask(m_mask_position, im_star, made.mask)
           fit_im == model_background(m_mask_position, basis_pca, im_star_mask, made.mask)
       IN  /\ ~ made.err
           /\ pca_mask' = made.mask
           /\ subtracted_out' = subtracted_out \o MinusFit(im_star, fit_im)
           /\ residuals_out' =
                 IF m_residuals_out_tag THEN residuals_out \o fit_im ELSE residuals_out
           /\ pca_masks' =
                 pca_masks \o MasksOfStack(m_mask_position, made.mask, Len(im_star))
    /\ pca_pc' = "rest done"
    /\ UNCHANGED <<pcaInputs, basis_pca, pca_i>>
    /\ UNCHANGED notPcaVars

\* line 698 when _create_mask raises
PcaRestRaise ==
    /\ pca_pc = "loop"
    /\ pca_i = PcaNumStacks(Len(pca_star), image_memory)
    /\ Len(pca_star) % image_memory > 0
    /\ LET frame_start == PcaNumStacks(Len(pca_star), image_memory) * image_memory
           frame_end == Len(pca_star)
       IN  create_mask(m_mask_position, m_mask_radius_sq,
                       Slice(star_position, frame_start, frame_end),
                       frame_end - frame_start).err
    /\ pca_pc' = "IndexError"
    /\ UNCHANGED <<pcaInputs, subtracted_out, residuals_out, basis_pca, pca_mask,
                   pca_i, pca_masks>>
    /\ UNCHANGED notPcaVars

\* lines 709-718: attributes copied, port closed
PcaEnd ==
    /\ \/ pca_pc = "rest done"
       \/ /\ pca_pc = "loop"
          /\ pca_i = PcaNumStacks(Len(pca_star), image_memory)
          /\ Len(pca_star) % image_memory = 0
    /\ pca_pc' = "done"
    /\ UNCHANGED <<pcaInputs, subtracted_out, residuals_out, basis_pca, pca_mask,
                   pca_i, pca_masks>>
    /\ UNCHANGED notPcaVars

NextPca ==
    \/ PcaBegin
    \/ PcaBeginRaise
    \/ PcaStack
    \/ PcaRest
    \/ PcaRestRaise
    \/ PcaEnd

SpecPca == InitPca /\ [][NextPca]_vars

-----------------------------------------------------------------------------
(* FakePlanetModule *)

\* the entry the PSF port reads: lines 67-70
PsfPort(same_tag, image, psf) == IF same_tag THEN image ELSE psf
PsfPortShape(same_tag, image_shape, psf_shape) ==
    IF same_tag THEN image_shape ELSE psf_shape

\* lines 103-105
ImSize(image_shape) == <<image_shape[2], image_shape[3]>>

\* lines 110-118: psf_size is read from the shape of image_in_tag
PsfSize(image_shape, ndim_psf, psf_shape) ==
    IF ndim_psf = 2 THEN <<image_shape[1], image_shape[2]>>
    ELSE <<image_shape[2], image_shape[3]>>

\* lines 111 and 116
NPsf(ndim_psf, psf_shape) == IF ndim_psf = 2 THEN 1 ELSE psf_shape[1]

\* lines 104 and 124: int(float(n)/float(memory))
NStack(n, memory) == n \div memory

\* lines 126-130
ImStacks(n_image, memory) ==
    LET whole == [i \in 1..(NStack(n_image, memory) + 1) |-> (i - 1) * memory]
    IN  IF NStack(n_image, memory) * memory # n_image
        THEN Append(whole, n_image) ELSE whole

\* lines 142-148: the sum of the PSF frames, stack by stack, over n_psf
RECURSIVE PsfStackSums(_, _, _)
PsfStackSums(psf, memory, i) ==
    IF i = 0 THEN FromInt(0)
    ELSE RAdd(PsfStackSums(psf, memory, i - 1),
              SumSeq(Slice(psf, (i - 1) * memory, i * memory)))

PsfMean(psf, n_psf, memory) ==
    LET whole == PsfStackSums(psf, memory, NStack(n_psf, memory))
        total == IF NStack(n_psf, memory) * memory # n_psf
                 THEN RAdd(whole, SumSeq(Slice(psf, NStack(n_psf, memory) * memory, n_psf)))
                 ELSE whole
    IN  RDiv(total, n_psf)

\* lines 132-148: the local psf: the 2-D image, the mean of a cube whose length
\* differs from n_image, and no value otherwise
LocalPsf(port, ndim_psf, n_psf, n_image, memory) ==
    IF ndim_psf = 2 THEN port
    ELSE IF n_image # n_psf THEN PsfMean(port, n_psf, memory)
    ELSE NaN

\* lines 158-172: image + psf_scaling*flux_ratio*shift(psf_tmp, (y_shift, x_shift)),
\* the shift being fixed by the parallactic angle; kept as the three operands
Inject(image, psf_tmp, angle) == [image |-> image, psf |-> psf_tmp, parang |-> angle]

\* lines 161-165
PsfTmp(port, psf, ndim_psf, n_psf, n_image, index) ==
    IF ndim_psf = 2 \/ n_psf # n_image THEN psf ELSE At(port, index)

\* line 154: the stack is read through the PSF port
StackRead(image, port, stacks, j) == Slice(port, At(stacks, j), At(stacks, j + 1))

\* lines 154-172: the frames written for stack j
StackWithPlanet(image, port, stacks, j, psf, ndim_psf, n_psf, n_image, memory, parang) ==
    LET read == StackRead(image, port, stacks, j)
    IN  [i \in 1..Len(read) |->
            Inject(read[i],
                   PsfTmp(port, psf, ndim_psf, n_psf, n_image, j * memory + i - 1),
                   At(parang, j * memory + i - 1))]

\* science frame g holds 100 + g, PSF frame (or row) k holds 10*(k + 1), the
\* parallactic angle of frame g is 15*g
FpSciencePixels(n) == [k \in 1..n |-> FromInt(99 + k)]
FpPsfPixels(n) == [k \in 1..n |-> FromInt(10 * k)]
FpAngles(n) == [k \in 1..n |-> 15 * (k - 1)]

FrameSizes == {<<2, 2>>, <<2, 3>>, <<3, 3>>}
FpOld == [image |-> FromInt(7), psf |-> FromInt(7), parang |-> 0]

\* the PSF entries: a 2-D image or a cube
PsfEntries ==
    {[shape |-> sz, data |-> FpPsfPixels(sz[1])] : sz \in FrameSizes}
    \cup {[shape |-> <<n>> \o sz, data |-> FpPsfPixels(n)] :
             n \in 1..MaxFpFrames, sz \in FrameSizes}

\* the science entries: a cube, or a single 2-D image
ScienceEntries3D ==
    {[shape |-> <<n>> \o sz, data |-> FpSciencePixels(n)] :
        n \in 1..MaxFpFrames, sz \in FrameSizes}
ScienceEntries2D == {[shape |-> sz, data |-> FpSciencePixels(sz[1])] : sz \in FrameSizes}

InitFp ==
    /\ NodIdle
    /\ SimpleIdle
    /\ MeanIdle
    /\ PrepIdle
    /\ PcaIdle
    /\ SxIdle
    /\ NewIdle
    /\ DitherIdle
    /\ \E science \in ScienceEntries3D \cup ScienceEntries2D :
          /\ fp_image = science.data
          /\ fp_image_shape = science.shape
          /\ fp_parang = FpAngles(science.shape[1])
    /\ fp_same_tag \in BOOLEAN
    /\ IF fp_same_tag
       THEN fp_psf = fp_image /\ fp_psf_shape = fp_image_shape
       ELSE \E entry \in PsfEntries : fp_psf = entry.data /\ fp_psf_shape = entry.shape
    /\ fp_memory \in 1..MaxMemory
    /\ fp_out \in {<<>>, <<FpOld>>}
    /\ im_stacks = <<>>
    /\ fp_psf_mean = NaN
    /\ fp_j = 0
    /\ fp_pc = "start"

fpInputs == <<fp_image, fp_image_shape, fp_parang, fp_same_tag, fp_psf, fp_psf_shape,
              fp_memory>>

FpNdimImage == Len(fp_image_shape)
FpNdimPsf == Len(PsfPortShape(fp_same_tag, fp_image_shape, fp_psf_shape))
FpNImage == fp_image_shape[1]
FpNPsf == NPsf(FpNdimPsf, PsfPortShape(fp_same_tag, fp_image_shape, fp_psf_shape))
FpPort == PsfPort(fp_same_tag, fp_image, fp_psf)

\* lines 100-108: image_in_tag is no cube
FpRaiseNoCube ==
    /\ fp_pc = "start"
    /\ FpNdimImage # 3
    /\ fp_pc' = "ValueError"
    /\ UNCHANGED <<fpInputs, fp_out, im_stacks, fp_psf_mean, fp_j>>
    /\ UNCHANGED notFpVars

\* lines 110-122: psf_size differs from im_size
FpRaiseSize ==
    /\ fp_pc = "start"
    /\ FpNdimImage = 3
    /\ PsfSize(fp_image_shape, FpNdimPsf,
               PsfPortShape(fp_same_tag, fp_image_shape, fp_psf_shape))
          # ImSize(fp_image_shape)
    /\ fp_pc' = "ValueError"
    /\ UNCHANGED <<fpInputs, fp_out, im_stacks, fp_psf_mean, fp_j>>
    /\ UNCHANGED notFpVars

\* lines 88-148: the checks pass; im_stacks and the local psf
FpSetup ==
    /\ fp_pc = "start"
    /\ FpNdimImage = 3
    /\ PsfSize(fp_image_shape, FpNdimPsf,
               PsfPortShape(fp_same_tag, fp_image_shape, fp_psf_shape))
          = ImSize(fp_image_shape)
    /\ im_stacks' = ImStacks(FpNImage, fp_memory)
    /\ fp_psf_mean' = LocalPsf(FpPort, FpNdimPsf, FpNPsf, FpNImage, fp_memory)
    /\ fp_pc' = "loop"
    /\ UNCHANGED <<fpInputs, fp_out, fp_j>>
    /\ UNCHANGED notFpVars

\* lines 150-177: one stack; with a cube behind the PSF port
FpStack ==
    /\ fp_pc = "loop"
    /\ fp_j < Len(im_stacks) - 1
    /\ FpNdimPsf = 3 \/ StackRead(fp_image, FpPort, im_stacks, fp_j) = <<>>
    /\ LET image == StackWithPlanet(fp_image, FpPort, im_stacks, fp_j, fp_psf_mean,
                                    FpNdimPsf, FpNPsf, FpNImage, fp_memory, fp_parang)
       IN  fp_out' = IF fp_j = 0 THEN image ELSE fp_out \o image
    /\ fp_j' = fp_j + 1
    /\ UNCHANGED <<fpInputs, im_stacks, fp_psf_mean, fp_pc>>
    /\ UNCHANGED notFpVars

\* line 172 with a 2-D image behind the PSF port: the stack read at line 154 is
\* a block of rows, image[i,] is one row, and adding the 2-D psf_tmp to it in
\* place raises ValueError
FpStackRaise ==
    /\ fp_pc = "loop"
    /\ fp_j < Len(im_stacks) - 1
    /\ FpNdimPsf = 2
    /\ StackRead(fp_image, FpPort, im_stacks, fp_j) # <<>>
    /\ fp_pc' = "ValueError"
    /\ UNCHANGED <<fpInputs, fp_out, im_stacks, fp_psf_mean, fp_j>>
    /\ UNCHANGED notFpVars

\* lines 179-191: attributes copied, port closed
FpEnd ==
    /\ fp_pc = "loop"
    /\ fp_j = Len(im_stacks) - 1
    /\ fp_pc' = "done"
    /\ UNCHANGED <<fpInputs, fp_out, im_stacks, fp_psf_mean, fp_j>>
    /\ UNCHANGED notFpVars

NextFp ==
    \/ FpRaiseNoCube
    \/ FpRaiseSize
    \/ FpSetup
    \/ FpStack
    \/ FpStackRaise
    \/ FpEnd

SpecFp == InitFp /\ [][NextFp]_vars

-----------------------------------------------------------------------------
(* SimplexMinimizationModule *)

\* A position is a pair in half pixels.  extra_rot is a multiple of 90 degrees,
\* for which math.cos and math.sin of lines 317-321 are exact.
Cos(angle) ==
    CASE angle % 360 = 0 -> 1
      [] angle % 360 = 90 -> 0
      [] angle % 360 = 180 -> 0 - 1
      [] angle % 360 = 270 -> 0

Sin(angle) ==
    CASE angle % 360 = 0 -> 0
      [] angle % 360 = 90 -> 1
      [] angle % 360 = 180 -> 0
      [] angle % 360 = 270 -> 0 - 1

\* _rotate(center, position, angle), lines 316-323
Rotate(center, position, angle) ==
    LET pos_x == (position[1] - center[1]) * Cos(angle)
                 - (position[2] - center[2]) * Sin(angle)
        pos_y == (position[1] - center[1]) * Sin(angle)
                 + (position[2] - center[2]) * Cos(angle)
    IN  <<center[1] + pos_x, center[2] + pos_y>>

\* lines 479-487: psf_size is read from the shape of image_in_tag; in half
\* pixels psf_size/2. is psf_size
SxCenter(shape, ndim_psf) ==
    IF ndim_psf = 2 THEN <<shape[1], shape[2]>> ELSE <<shape[2], shape[3]>>

\* line 496: x0 of minimize
SxX0 == <<m_position[1], m_position[2], m_magnitude>>

\* minimize(method="Nelder-Mead"), lines 495-499: the search first evaluates
\* x0 and x0 with one coordinate changed at a time (the initial simplex), then
\* the points of its reflections, expansions, contractions and shrinks.  A step
\* is one pixel or one magnitude.
InitialSimplex == << <<0, 0, 0>>, <<2, 0, 0>>, <<0, 2, 0>>, <<0, 0, 1>> >>

SearchSteps == {<<dx, dy, dm>> : dx \in {0, 2}, dy \in {0, 2}, dm \in {0, 1}}

Stepped(x0, step) == <<x0[1] + step[1], x0[2] + step[2], x0[3] + step[3]>>

TrialArgs(n) ==
    IF n < Len(InitialSimplex)
    THEN {Stepped(SxX0, InitialSimplex[n + 1])}
    ELSE {Stepped(SxX0, step) : step \in SearchSteps}

\* lines 419-437: the merit of the residuals.  The data fix it as a function of
\* the trial arguments; it is least where the negative planet cancels the
\* planet of the data, at sx_planet steps from x0.
Merit(arg) ==
    LET best == Stepped(SxX0, sx_planet)
    IN  Abs(arg[1] - best[1]) + Abs(arg[2] - best[2]) + 2 * Abs(arg[3] - best[3])

MeritSupported(merit) == merit \in {"hessian", "sum"}

\* lines 348-389
PcaModuleSupported(pca_module) == pca_module \in {"PSFSubtractionModule", "FastPCAModule"}

\* A check of the residuals that lets every entry through
MultipleResidualsAccepted(frames) == FALSE

\* lines 397-401: the frames of simplex_res_mean (0 frames: a 2-D entry)
MultipleResiduals(frames) == frames > 1

\* lines 336-346, 391-395: the residuals of the images with the negative planet
\* of arg, as the PSF subtraction leaves them in simplex_res_mean
ImRes(arg) == [arg |-> arg]

\* line 406: the centre of Cutout2D
CropPosition == Rotate(sx_center, m_position, 0 - m_extra_rot)

\* lines 333-334, 443-450: the row of flux_position_tag; sep is kept squared and
\* ang as the arguments of atan2 and the rotation taken off
FluxPositionRow(arg) ==
    [position |-> Rotate(sx_center, <<arg[1], arg[2]>>, 0 - m_extra_rot),
     sep |-> (arg[2] - sx_center[1]) * (arg[2] - sx_center[1])
             + (arg[1] - sx_center[2]) * (arg[1] - sx_center[2]),
     ang |-> <<arg[2] - sx_center[1], arg[1] - sx_center[2], m_extra_rot>>,
     mag |-> arg[3],
     merit |-> Merit(arg)]

SxShapes == {<<4, 4>>, <<2, 4, 4>>}
SxNdimPsf == {2, 3, 4}
SxPositions == {<<6, 4>>}
SxMagnitudes == {3}
SxMerits == {"hessian", "sum", "gaussian"}
SxPcaModules == {"PSFSubtractionModule", "FastPCAModule", "PcaPsfSubtractionModule"}
SxExtraRots == {0, 90}
SxResidualFrames == {0, 1, 2}
SxOldRes == [arg |-> <<0, 0, 0>>]
SxOldRow == [position |-> <<0, 0>>, sep |-> 0, ang |-> <<0, 0, 0>>, mag |-> 0, merit |-> 0]

InitSimplex ==
    /\ NodIdle
    /\ SimpleIdle
    /\ MeanIdle
    /\ PrepIdle
    /\ PcaIdle
    /\ FpIdle
    /\ NewIdle
    /\ DitherIdle
    /\ sx_image_shape \in SxShapes
    /\ sx_ndim_psf \in SxNdimPsf
    /\ m_position \in SxPositions
    /\ m_magnitude \in SxMagnitudes
    /\ m_merit \in SxMerits
    /\ m_pca_module \in SxPcaModules
    /\ m_extra_rot \in SxExtraRots
    /\ sx_center = <<0, 0>>
    /\ \E old \in BOOLEAN :
          /\ res_out = IF old THEN <<SxOldRes>> ELSE <<>>
          /\ flux_position = IF old THEN <<SxOldRow>> ELSE <<>>
    /\ sx_planet \in SearchSteps
    /\ sx_evaluations = <<>>
    /\ sx_pc = "start"

sxInputs == <<sx_image_shape, sx_ndim_psf, m_magnitude, m_merit, m_pca_module,
              m_extra_rot, sx_planet>>

\* lines 456-477: the outputs are cleared, then image_in_tag is checked
SxRaiseNoCube ==
    /\ sx_pc = "start"
    /\ Len(sx_image_shape) # 3
    /\ res_out' = <<>>
    /\ flux_position' = <<>>
    /\ sx_pc' = "ValueError"
    /\ UNCHANGED <<sxInputs, m_position, sx_center, sx_evaluations>>
    /\ UNCHANGED notSxVars

\* lines 456-487: psf_size is bound for a 2-D or 3-D psf_in_tag only
SxRaiseUnbound ==
    /\ sx_pc = "start"
    /\ Len(sx_image_shape) = 3
    /\ sx_ndim_psf \notin {2, 3}
    /\ res_out' = <<>>
    /\ flux_position' = <<>>
    /\ sx_pc' = "UnboundLocalError"
    /\ UNCHANGED <<sxInputs, m_position, sx_center, sx_evaluations>>
    /\ UNCHANGED notSxVars

\* lines 456-493
SxBegin ==
    /\ sx_pc = "start"
    /\ Len(sx_image_shape) = 3
    /\ sx_ndim_psf \in {2, 3}
    /\ res_out' = <<>>
    /\ flux_position' = <<>>
    /\ sx_center' = SxCenter(sx_image_shape, sx_ndim_psf)
    /\ m_position' = Rotate(SxCenter(sx_image_shape, sx_ndim_psf), m_position, m_extra_rot)
    /\ sx_pc' = "minimize"
    /\ UNCHANGED <<sxInputs, sx_evaluations>>
    /\ UNCHANGED notSxVars

SxEvaluation(arg, frames, cropped, outcome) ==
    [arg |-> arg, frames |-> frames,
     crop |-> IF cropped THEN CropPosition ELSE <<>>,
     outcome |-> outcome]

\* _objective, lines 325-389: an unsupported pca_module
SxObjectiveRaisePcaModule ==
    /\ sx_pc = "minimize"
    /\ Len(sx_evaluations) < MaxEvaluations
    /\ ~PcaModuleSupported(m_pca_module)
    /\ \E arg \in TrialArgs(Len(sx_evaluations)) :
          sx_evaluations' = Append(sx_evaluations, SxEvaluation(arg, 0, FALSE, "ValueError"))
    /\ sx_pc' = "ValueError"
    /\ UNCHANGED <<sxInputs, m_position, sx_center, res_out, flux_position>>
    /\ UNCHANGED notSxVars

\* _objective, lines 325-401: more than one residual image
SxObjectiveRaiseResiduals ==
    /\ sx_pc = "minimize"
    /\ Len(sx_evaluations) < MaxEvaluations
    /\ PcaModuleSupported(m_pca_module)
    /\ \E arg \in TrialArgs(Len(sx_evaluations)), frames \in SxResidualFrames :
          /\ MultipleResiduals(frames)
          /\ sx_evaluations' = Append(sx_evaluations,
                                      SxEvaluation(arg, frames, FALSE, "ValueError"))
    /\ sx_pc' = "ValueError"
    /\ UNCHANGED <<sxInputs, m_position, sx_center, res_out, flux_position>>
    /\ UNCHANGED notSxVars

\* _objective, lines 325-441: the residuals are appended at line 403, the merit
\* name is looked at after the crop
SxObjectiveRaiseMerit ==
    /\ sx_pc = "minimize"
    /\ Len(sx_evaluations) < MaxEvaluations
    /\ PcaModuleSupported(m_pca_module)
    /\ ~MeritSupported(m_merit)
    /\ \E arg \in TrialArgs(Len(sx_evaluations)), frames \in SxResidualFrames :
          /\ ~MultipleResiduals(frames)
          /\ res_out' = Append(res_out, ImRes(arg))
          /\ sx_evaluations' = Append(sx_evaluations,
                                      SxEvaluation(arg, frames, TRUE, "ValueError"))
    /\ sx_pc' = "ValueError"
    /\ UNCHANGED <<sxInputs, m_position, sx_center, flux_position>>
    /\ UNCHANGED notSxVars

\* _objective, lines 325-454: an evaluation that returns its merit
SxObjective ==
    /\ sx_pc = "minimize"
    /\ Len(sx_evaluations) < MaxEvaluations
    /\ PcaModuleSupported(m_pca_module)
    /\ MeritSupported(m_merit)
    /\ \E arg \in TrialArgs(Len(sx_evaluations)), frames \in SxResidualFrames :
          /\ ~MultipleResiduals(frames)
          /\ res_out' = Append(res_out, ImRes(arg))
          /\ flux_position' = Append(flux_position, FluxPositionRow(arg))
          /\ sx_evaluations' = Append(sx_evaluations,
                                      SxEvaluation(arg, frames, TRUE, "returned"))
    /\ UNCHANGED <<sxInputs, m_position, sx_center, sx_pc>>
    /\ UNCHANGED notSxVars

\* lines 495-513: minimize returns once the simplex has been evaluated and is
\* small enough; its result is not kept
SxEnd ==
    /\ sx_pc = "minimize"
    /\ Len(sx_evaluations) >= Len(InitialSimplex)
    /\ sx_pc' = "done"
    /\ UNCHANGED <<sxInputs, m_position, sx_center, res_out, flux_position, sx_evaluations>>
    /\ UNCHANGED notSxVars

NextSimplex ==
    \/ SxRaiseNoCube
    \/ SxRaiseUnbound
    \/ SxBegin
    \/ SxObjectiveRaisePcaModule
    \/ SxObjectiveRaiseResiduals
    \/ SxObjectiveRaiseMerit
    \/ SxObjective
    \/ SxEnd

SpecSimplex == InitSimplex /\ [][NextSimplex]_vars

-----------------------------------------------------------------------------
(* The constructors of NoddingBackgroundModule and SkySubtraction *)

NewClasses == {"NoddingBackgroundModule", "SkySubtraction"}
NewTags == {"sky_arr", "im_arr", "im_out"}
ModeArguments == {"next", "previous", "both", "Both", "nearest", "mean"}

\* the three ports of lines 1003-1005 and of lines 78-81 of SkyScienceDataModules.py
PortsOf(tags) == <<[kind |-> "input", tag |-> tags[1]],
                   [kind |-> "input", tag |-> tags[2]],
                   [kind |-> "output", tag |-> tags[3]]>>

\* line 1009 and line 85 of SkyScienceDataModules.py: mode in ["next", "previous", "both"]
ModeSupported(mode) == mode \in Modes

InitNew ==
    /\ NodIdle
    /\ SimpleIdle
    /\ MeanIdle
    /\ PrepIdle
    /\ PcaIdle
    /\ FpIdle
    /\ SxIdle
    /\ DitherIdle
    /\ new_class \in NewClasses
    /\ new_tags \in NewTags \X NewTags \X NewTags
    /\ new_mode \in ModeArguments
    /\ new_ports = <<>>
    /\ new_m_time_stamps = <<>>
    /\ new_m_mode = "unset"
    /\ new_pc = "call"

\* NoddingBackgroundModule.__init__, lines 1001-1012
NoddingInit ==
    /\ new_pc = "call"
    /\ new_class = "NoddingBackgroundModule"
    /\ ModeSupported(new_mode)
    /\ new_ports' = PortsOf(new_tags)
    /\ new_m_time_stamps' = <<>>
    /\ new_m_mode' = new_mode
    /\ new_pc' = "constructed"
    /\ UNCHANGED <<new_class, new_tags, new_mode>>
    /\ UNCHANGED notNewVars

\* NoddingBackgroundModule.__init__, lines 1001-1014: the ports and the list
\* are set before the mode is looked at
NoddingInitRaise ==
    /\ new_pc = "call"
    /\ new_class = "NoddingBackgroundModule"
    /\ ~ModeSupported(new_mode)
    /\ new_ports' = PortsOf(new_tags)
    /\ new_m_time_stamps' = <<>>
    /\ new_pc' = "ValueError"
    /\ UNCHANGED <<new_class, new_tags, new_mode, new_m_mode>>
    /\ UNCHANGED notNewVars

\* SkySubtraction.__init__, lines 76-88 of SkyScienceDataModules.py
SkySubtractionInit ==
    /\ new_pc = "call"
    /\ new_class = "SkySubtraction"
    /\ new_ports' = PortsOf(new_tags)
    /\ new_m_time_stamps' = <<>>
    /\ new_m_mode' = IF ModeSupported(new_mode) THEN new_mode ELSE "next"
    /\ new_pc' = "constructed"
    /\ UNCHANGED <<new_class, new_tags, new_mode>>
    /\ UNCHANGED notNewVars

NextNew ==
    \/ NoddingInit
    \/ NoddingInitRaise
    \/ SkySubtractionInit

SpecNew == InitNew /\ [][NextNew]_vars

-----------------------------------------------------------------------------
(* PCABackgroundDitheringModule *)

\* line 813: np.arange(0, n_dither, 1)
StarPos(n_dither) == [i \in 1..n_dither |-> i - 1]

\* lines 829-833: the dither tuple of the preparation step of position i
DitherTuple(n_dither, cubes_per_position, i) ==
    <<n_dither, cubes_per_position, At(StarPos(n_dither), i)>>

\* the tag names "pca_bg_sub"+str(i+1) and the like
TagName(stem, i) == <<stem, i + 1>>

\* the centres of the dither positions
Centers(n) == [i \in 1..n |-> <<10 * i, 10 * i>>]

InitDither ==
    /\ NodIdle
    /\ SimpleIdle
    /\ MeanIdle
    /\ PrepIdle
    /\ PcaIdle
    /\ FpIdle
    /\ SxIdle
    /\ NewIdle
    /\ dither_nframes \in UNION {[1..n -> {1}] : n \in 1..MaxPrepCubes}
    /\ dither_has_para \in BOOLEAN
    /\ m_center \in {Centers(n) : n \in 1..MaxDitherPositions}
    /\ dither_cubes_per_position \in 1..MaxCubesPerPosition
    /\ dither_prepared = <<>>
    /\ dither_tags = <<>>
    /\ dither_out = <<"earlier">>
    /\ dither_i = 0
    /\ dither_pc = "loop"

\* lines 815-873, one dither position: the cut, the preparation step with its
\* flags (lines 373-376), the bad pixel steps, the star position, the PCA step
DitherPosition ==
    /\ dither_pc = "loop"
    /\ dither_i < Len(m_center)
    /\ ~ ParaMissing(dither_has_para)
    /\ LET dither == DitherTuple(Len(m_center), dither_cubes_per_position, dither_i)
       IN  dither_prepared' = Append(dither_prepared,
              [dither |-> dither,
               image_in_tag |-> TagName("dither", dither_i),
               bg_frames |-> BgFrames(Len(dither_nframes), dither[1], dither[2], dither[3])])
    /\ dither_tags' = Append(dither_tags, TagName("pca_bg_sub", dither_i))
    /\ dither_i' = dither_i + 1
    /\ UNCHANGED <<dither_nframes, dither_has_para, m_center,
                   dither_cubes_per_position, dither_out, dither_pc>>
    /\ UNCHANGED notDitherVars

\* lines 815-836: the preparation step of the first position raises on an
\* input without NEW_PARA (lines 356-358)
DitherPositionRaise ==
    /\ dither_pc = "loop"
    /\ dither_i < Len(m_center)
    /\ ParaMissing(dither_has_para)
    /\ dither_pc' = "ValueError"
    /\ UNCHANGED <<dither_nframes, dither_has_para, m_center,
                   dither_cubes_per_position, dither_prepared, dither_tags,
                   dither_out, dither_i>>
    /\ UNCHANGED notDitherVars

\* lines 875-880: CombineTagsModule
DitherCombine ==
    /\ dither_pc = "loop"
    /\ dither_i = Len(m_center)
    /\ dither_out' = dither_tags
    /\ dither_pc' = "done"
    /\ UNCHANGED <<dither_nframes, dither_has_para, m_center,
                   dither_cubes_per_position, dither_prepared, dither_tags,
                   dither_i>>
    /\ UNCHANGED notDitherVars

NextDither ==
    \/ DitherPosition
    \/ DitherPositionRaise
    \/ DitherCombine

SpecDither == InitDither /\ [][NextDither]_vars

-----------------------------------------------------------------------------
(* Properties of NoddingBackgroundModule *)

Positions(ts) == 0..(Len(ts) - 1)
SkyPositions(ts) == {p \in Positions(ts) : IsSky(ts, p)}
SciencePositions(ts) == {p \in Positions(ts) : ~ IsSky(ts, p)}
SkyAfter(ts, i) == {p \in SkyPositions(ts) : p > i}
SkyBefore(ts, i) == {p \in SkyPositions(ts) : p < i}

\* the entries in the order in which one call of _create_time_stamp_list appends them
InsertedEntries == SkyEntries(sky_exp_no) \o ScienceEntries(science_exp_no, science_nframes)

InsertionRank(e) == CHOOSE k \in 1..Len(InsertedEntries) : InsertedEntries[k] = e

TimeStampListAsSpecified ==
    /\ Len(m_time_stamps) = Len(sky_exp_no) + Len(science_exp_no)
    /\ \A k \in 1..Len(InsertedEntries) :
          Cardinality({p \in 1..Len(m_time_stamps) :
                          m_time_stamps[p] = InsertedEntries[k]}) = 1
    /\ \A p, q \in 1..Len(m_time_stamps) :
          p < q => m_time_stamps[p].m_time <= m_time_stamps[q].m_time
    /\ \A p, q \in 1..Len(m_time_stamps) :
          (p < q /\ m_time_stamps[p].m_time = m_time_stamps[q].m_time)
             => InsertionRank(m_time_stamps[p]) < InsertionRank(m_time_stamps[q])
    /\ \A p, q \in 1..Len(m_time_stamps) :
          (/\ m_time_stamps[p].m_sky_or_science = "SKY"
           /\ m_time_stamps[q].m_sky_or_science = "SCIENCE"
           /\ m_time_stamps[p].m_time = m_time_stamps[q].m_time) => p < q

\* C1: after _create_time_stamp_list the list holds exactly one entry per sky
\* frame and one per science exposure, is non-decreasing in time stamp, keeps
\* entries with equal time stamps in insertion order, and so has a SKY entry
\* before a SCIENCE entry with the same time stamp.
C1_TimeStampListAfterCreate == nod_pc # "idle" => TimeStampListAsSpecified

\* What does hold: the statement of C1 for the first run of an instance, whose
\* list is empty when _create_time_stamp_list is called.
FirstRunTimeStampList == (nod_pc # "idle" /\ nod_runs = 1) => TimeStampListAsSpecified

\* the SKY position each direction resolves to, with its fallback
ExpectedNext(ts, i) ==
    IF SkyAfter(ts, i) # {} THEN Min(SkyAfter(ts, i)) ELSE Max(SkyBefore(ts, i))
ExpectedPrevious(ts, i) ==
    IF SkyBefore(ts, i) # {} THEN Max(SkyBefore(ts, i)) ELSE Min(SkyAfter(ts, i))

\* C2: for a SCIENCE entry at position i of a list with a SKY entry, mode
\* 'next' returns the frame of the first SKY entry after i, or else of the last
\* one before i; mode 'previous' the frame of the last SKY entry before i, or
\* else of the first one after i.
C2_NextPreviousResolution ==
    (nod_pc # "idle" /\ HasSky(m_time_stamps)) =>
        \A i \in SciencePositions(m_time_stamps) :
            /\ calc_sky_frame(m_time_stamps, sky_arr, "next", i) =
                  [err |-> "none",
                   frame |-> SkyFrameAt(m_time_stamps, sky_arr,
                                        ExpectedNext(m_time_stamps, i))]
            /\ calc_sky_frame(m_time_stamps, sky_arr, "previous", i) =
                  [err |-> "none",
                   frame |-> SkyFrameAt(m_time_stamps, sky_arr,
                                        ExpectedPrevious(m_time_stamps, i))]

\* a run in mode 'next' has subtracted a sky frame found by the backward
\* fallback, and one in mode 'previous' would take the forward fallback
C2_Witness ==
    /\ nod_pc = "loop"
    /\ m_mode = "next"
    /\ nod_out # <<>>
    /\ \E i \in SciencePositions(m_time_stamps) :
          i < nod_i /\ SkyAfter(m_time_stamps, i) = {} /\ SkyBefore(m_time_stamps, i) # {}
    /\ \E i \in SciencePositions(m_time_stamps) :
          SkyBefore(m_time_stamps, i) = {} /\ SkyAfter(m_time_stamps, i) # {}

\* C3: mode 'both' returns the average of the 'previous' and the 'next'
\* result, each with its own fallback; with SKY entries on one side of i only
\* the result is the frame of the nearest SKY entry itself.
C3_BothAveragesPreviousAndNext ==
    (nod_pc # "idle" /\ HasSky(m_time_stamps)) =>
        \A i \in SciencePositions(m_time_stamps) :
            LET both == calc_sky_frame(m_time_stamps, sky_arr, "both", i)
                prv == SkyFrameAt(m_time_stamps, sky_arr, ExpectedPrevious(m_time_stamps, i))
                nxt == SkyFrameAt(m_time_stamps, sky_arr, ExpectedNext(m_time_stamps, i))
            IN  /\ both.err = "none"
                /\ RAdd(both.frame, both.frame) = RAdd(prv, nxt)
                /\ SkyAfter(m_time_stamps, i) = {} =>
                      both.frame = SkyFrameAt(m_time_stamps, sky_arr,
                                              Max(SkyBefore(m_time_stamps, i)))
                /\ SkyBefore(m_time_stamps, i) = {} =>
                      both.frame = SkyFrameAt(m_time_stamps, sky_arr,
                                              Min(SkyAfter(m_time_stamps, i)))

\* a run in mode 'both' has subtracted the average of two different sky frames
\* from one exposure and a one-sided sky frame from another
C3_Witness ==
    /\ nod_pc = "done"
    /\ m_mode = "both"
    /\ nod_out # <<>>
    /\ \E i \in SciencePositions(m_time_stamps) :
          /\ SkyAfter(m_time_stamps, i) # {} /\ SkyBefore(m_time_stamps, i) # {}
          /\ SkyFrameAt(m_time_stamps, sky_arr, ExpectedNext(m_time_stamps, i))
                # SkyFrameAt(m_time_stamps, sky_arr, ExpectedPrevious(m_time_stamps, i))
    /\ \E i \in SciencePositions(m_time_stamps) : SkyAfter(m_time_stamps, i) = {}

\* C4: with no SKY entry and at least one SCIENCE entry in the list, run raises
\* at the first SCIENCE entry and never appends a frame to the output.
C4_NoSkyRaisesAtFirstScience ==
    (/\ nod_pc # "idle"
     /\ ~ HasSky(m_time_stamps)
     /\ SciencePositions(m_time_stamps) # {}) =>
        /\ nod_out = <<>>
        /\ nod_pc \in {"loop", "error"}
        /\ nod_i = Min(SciencePositions(m_time_stamps))
        /\ nod_pc = "loop" => (ENABLED NodRaise /\ ~ ENABLED NodSubtract)

\* the run has raised at the first SCIENCE entry of a list without SKY entries
C4_Witness ==
    /\ nod_pc = "error"
    /\ ~ HasSky(m_time_stamps)
    /\ Len(m_time_stamps) >= 2
    /\ nod_out = <<>>

-----------------------------------------------------------------------------
(* Properties of SimpleBackgroundSubtractionModule *)

\* frame i of the original input minus frame (i + shift) mod N of it
SimpleExpected(i) ==
    RSub(At(simple_orig, i),
         At(simple_orig, (i + simple_shift) % Len(simple_orig)))

SimpleOutput == simple_db[simple_out_tag]

\* C7: with an output tag different from the input tag the output has exactly
\* N frames and frame i is input frame i minus input frame (i + shift) mod N.
C7_FreshOutputIsCircularDifference ==
    (simple_in_tag # simple_out_tag /\ simple_pc \in {"loop", "done"}) =>
        /\ Len(SimpleOutput) = simple_i
        /\ simple_pc = "done" => Len(SimpleOutput) = Len(simple_orig)
        /\ \A i \in 0..(Len(SimpleOutput) - 1) : At(SimpleOutput, i) = SimpleExpected(i)
        /\ simple_db[simple_in_tag] = simple_orig

\* a finished run into a fresh tag with a shift that wraps around the stack
C7_Witness ==
    /\ simple_pc = "done"
    /\ simple_in_tag # simple_out_tag
    /\ Len(simple_orig) = MaxSimpleFrames
    /\ simple_shift % Len(simple_orig) # 0
    /\ simple_shift < 0
    /\ \E i, j \in 0..(Len(simple_orig) - 1) : SimpleExpected(i) # SimpleExpected(j)

\* C8: run in place (output tag = input tag) leaves frame i equal to the
\* original frame i minus the original frame (i + shift) mod N, as the
\* fresh-output variant does.
C8_InPlaceEqualsFreshOutput ==
    (simple_in_tag = simple_out_tag /\ simple_pc = "done") =>
        /\ Len(SimpleOutput) = Len(simple_orig)
        /\ \A i \in 0..(Len(simple_orig) - 1) : At(SimpleOutput, i) = SimpleExpected(i)

-----------------------------------------------------------------------------
(* Properties of MeanBackgroundSubtractionModule *)

MeanN == Len(mean_in)
MeanS == m_star_prs_shift.int

\* the blocks of S frames of the claim; the frames left over when S does not
\* divide N belong to the last block
MeanBlocks == MeanN \div MeanS
BlockOf(k) == IF k \div MeanS >= MeanBlocks THEN MeanBlocks - 1 ELSE k \div MeanS
BlockMean(b) == NpMean(SubSeq(mean_in, b * MeanS + 1, (b + 1) * MeanS))

BlockBackground(b) ==
    IF b = 0 THEN BlockMean(1)
    ELSE IF b = MeanBlocks - 1 THEN BlockMean(b - 1)
    ELSE RDiv(RAdd(BlockMean(b - 1), BlockMean(b + 1)), 2)

FixedShiftOutputAsSpecified ==
    /\ Len(mean_out) = MeanN
    /\ \A k \in 0..(MeanN - 1) :
          At(mean_out, k) = RSub(At(mean_in, k), BlockBackground(BlockOf(k)))

\* C5: with an integer star_pos_shift S and N >= 2S frames, the first block of
\* S frames has the mean of the second block subtracted, the last block the
\* mean of the block before it, and every other block the average of the means
\* of the S frames one period before and one period after it.
C5_FixedShiftBlocks ==
    (mean_pc = "done" /\ m_star_prs_shift.kind = "int") => FixedShiftOutputAsSpecified

\* What does hold: the statement of C5 where S divides N and N >= 3S.
FixedShiftBlocksOfRegularStack ==
    (/\ mean_pc = "done"
     /\ m_star_prs_shift.kind = "int"
     /\ MeanN >= 3 * MeanS
     /\ MeanN % MeanS = 0) => FixedShiftOutputAsSpecified

\* the input is too small for the shift in use
MeanInsufficient ==
    IF m_star_prs_shift.kind = "int"
    THEN MeanN < 2 * MeanS
    ELSE Len(mean_nframes) < 2 * m_cubes_per_position

\* C6: with N < 2S (integer S) or fewer than 2*cubes_per_position cubes
\* (NFRAMES in use) run raises before anything is written: the output tag
\* stays as it was.
C6_InsufficientInputRaisesBeforeWriting ==
    /\ MeanInsufficient =>
          /\ mean_pc \in {"start", "ValueError"}
          /\ mean_out = mean_out_orig
          /\ mean_pc = "start" => (ENABLED MeanRaise /\ ~ ENABLED MeanFirstFrame)
    /\ mean_pc = "ValueError" => (MeanInsufficient /\ mean_out = mean_out_orig)

\* run has raised on three cubes with two cubes per position, the output tag
\* holding earlier data
C6_Witness ==
    /\ mean_pc = "ValueError"
    /\ m_star_prs_shift.kind = "ndarray"
    /\ Len(mean_nframes) = 3
    /\ m_cubes_per_position = 2
    /\ mean_out # <<>>

-----------------------------------------------------------------------------
(* Properties of PCABackgroundPreparationModule *)

PrepN == Len(prep_nframes)
PrepFlagged == prep_pc \in {"loop", "done", "UnboundLocalError"}
SourceCubes == {k \in 0..(PrepN - 1) : ~ At(bg_frames, k)}
BackgroundCubes == {k \in 0..(PrepN - 1) : At(bg_frames, k)}

InDitherWindow(i) ==
    (i - m_first_star_cube) % (prep_cubes_per_position * m_dither_positions)
        < prep_cubes_per_position

\* C9 as stated: with dither = (D, C, F), cube i is flagged SOURCE exactly when
\* (i - F) mod (C*D) < C and BACKGROUND otherwise, for every cube index i,
\* indices below F included.
C9_SourceIffInWindow ==
    PrepFlagged =>
        \A i \in 0..(PrepN - 1) : (i \in SourceCubes) <=> InDitherWindow(i)

\* C9 amended: cube i is flagged SOURCE exactly when i >= F and
\* (i - F) mod (C*D) < C, and BACKGROUND otherwise; every cube before the
\* first star cube F is BACKGROUND.
C9_SourceIffInWindowFromFirstStarCube ==
    PrepFlagged =>
        \A i \in 0..(PrepN - 1) :
            (i \in SourceCubes) <=> (i >= m_first_star_cube /\ InDitherWindow(i))

\* the flags were computed, a cube below F lies in a window of the formula, and
\* cubes of both kinds exist from F on
C9_Witness ==
    /\ prep_pc = "loop"
    /\ \E i \in 0..(PrepN - 1) : i < m_first_star_cube /\ InDitherWindow(i)
    /\ \E i \in SourceCubes : \E j \in BackgroundCubes : j > i

HasPrevious(k) == \E b \in BackgroundCubes : b < k
HasNext(k) == \E b \in BackgroundCubes : b > k
NearestPrevious(k) == Max({b \in BackgroundCubes : b < k})
NearestNext(k) == Min({b \in BackgroundCubes : b > k})

\* the SOURCE cube whose search last found a following BACKGROUND cube, seen
\* from SOURCE cube k
NextKnown(k) == HasNext(k) \/ \E j \in SourceCubes : j < k /\ HasNext(j)
NextDonor(k) ==
    IF HasNext(k) THEN k ELSE Max({j \in SourceCubes : j < k /\ HasNext(j)})

NeverFound(k) ==
    IF k = 0 THEN ~ HasNext(k)
    ELSE IF k = PrepN - 1 THEN ~ HasPrevious(k)
    ELSE ~ (HasPrevious(k) /\ NextKnown(k))

ExpectedBackground(k) ==
    IF k \in BackgroundCubes THEN At(cube_mean, k)
    ELSE IF k = 0 THEN At(cube_mean, NearestNext(k))
    ELSE IF k = PrepN - 1 THEN At(cube_mean, NearestPrevious(k))
    ELSE Average2(At(cube_mean, NearestPrevious(k)),
                  At(cube_mean, NearestNext(NextDonor(k))))

ProcessedCubes == 0..(Len(prep_background) - 1)

\* the frames written for cube k are its input frames minus the background
PrepOutputsAre(background) ==
    LET RECURSIVE Collect(_, _, _)
        Collect(k, count, kind) ==
            IF k = Len(prep_background) THEN <<>>
            ELSE LET item == At(prep_nframes, k)
                     rest == Collect(k + 1, count + item, kind)
                 IN  IF At(bg_frames, k) = kind
                     THEN SubtractFromAll(Slice(prep_in, count, count + item),
                                          background[k + 1]) \o rest
                     ELSE rest
    IN  /\ star_init => star_out = Collect(0, 0, FALSE)
        /\ background_init => background_out = Collect(0, 0, TRUE)

\* C10 as stated: a SOURCE cube has the previous BACKGROUND cube's mean
\* subtracted if it is first in the sequence, the next BACKGROUND cube's mean
\* if it is last, and otherwise the average of the nearest-previous and
\* nearest-next BACKGROUND cube means; a BACKGROUND cube has its own mean
\* subtracted.
C10_FirstUsesPreviousLastUsesNext ==
    \A k \in ProcessedCubes :
        IF k \in BackgroundCubes THEN At(prep_background, k) = At(cube_mean, k)
        ELSE IF k = 0
        THEN HasPrevious(k)
             /\ At(prep_background, k) = At(cube_mean, NearestPrevious(k))
        ELSE IF k = PrepN - 1
        THEN HasNext(k)
             /\ At(prep_background, k) = At(cube_mean, NearestNext(k))
        ELSE /\ HasPrevious(k)
             /\ HasNext(k)
             /\ At(prep_background, k) =
                    Average2(At(cube_mean, NearestPrevious(k)),
                             At(cube_mean, NearestNext(k)))

\* C10 amended: a SOURCE cube has the nearest-next BACKGROUND cube's mean
\* subtracted if it is first in the sequence, the nearest-previous BACKGROUND
\* cube's mean if it is last (and not first), and otherwise the average of the
\* nearest-previous BACKGROUND cube's mean and a next value, which is the
\* nearest-next BACKGROUND cube's mean when a BACKGROUND cube follows and
\* otherwise the next value of the latest earlier SOURCE cube that was followed
\* by one; the run fails at the first SOURCE cube for which a value it needs was
\* never found, with the earlier cubes already written; a BACKGROUND cube has
\* its own mean subtracted.
C10_FirstUsesNextLastUsesPrevious ==
    /\ \A k \in ProcessedCubes :
          /\ k \in SourceCubes => ~ NeverFound(k)
          /\ At(prep_background, k) = ExpectedBackground(k)
    /\ PrepFlagged => PrepOutputsAre(prep_background)
    /\ prep_pc = "UnboundLocalError" =>
          /\ prep_i \in SourceCubes
          /\ NeverFound(prep_i)
          /\ Len(prep_background) = prep_i
    /\ prep_pc = "done" => Len(prep_background) = PrepN
    /\ (prep_pc = "loop" /\ prep_i \in SourceCubes) =>
          (NeverFound(prep_i) <=> ~ ENABLED PrepStarCube)

\* a finished run whose first and last cubes are SOURCE cubes, with a SOURCE
\* cube between BACKGROUND cubes
C10_Witness ==
    /\ prep_pc = "done"
    /\ 0 \in SourceCubes
    /\ PrepN - 1 \in SourceCubes
    /\ PrepN > 1
    /\ \E k \in SourceCubes : 0 < k /\ k < PrepN - 1 /\ HasNext(k)

\* a finished run in which a SOURCE cube that no BACKGROUND cube follows took
\* the next value of an earlier SOURCE cube
PrepStaleNextReached ==
    /\ prep_pc = "done"
    /\ \E k \in SourceCubes : 0 < k /\ k < PrepN - 1 /\ ~ HasNext(k)

\* the cubes of one kind, in input order
RECURSIVE CubesOfKind(_, _)
CubesOfKind(k, kind) ==
    IF k = PrepN THEN <<>>
    ELSE IF At(bg_frames, k) = kind THEN <<k>> \o CubesOfKind(k + 1, kind)
    ELSE CubesOfKind(k + 1, kind)

CubeStart(k) == SumInts(SubSeq(prep_nframes, 1, k))

\* the frame counts, the angles and the input frame indices of a sequence of cubes
RECURSIVE CubeCounts(_)
CubeCounts(cubes) ==
    IF cubes = <<>> THEN <<>>
    ELSE <<At(prep_nframes, Head(cubes))>> \o CubeCounts(Tail(cubes))

RECURSIVE CubeAngles(_)
CubeAngles(cubes) ==
    IF cubes = <<>> THEN <<>>
    ELSE Slice(prep_parang, CubeStart(Head(cubes)),
               CubeStart(Head(cubes)) + At(prep_nframes, Head(cubes)))
         \o CubeAngles(Tail(cubes))

RECURSIVE CubeData(_)
CubeData(cubes) ==
    IF cubes = <<>> THEN <<>>
    ELSE SubtractFromAll(Slice(prep_in, CubeStart(Head(cubes)),
                               CubeStart(Head(cubes)) + At(prep_nframes, Head(cubes))),
                         At(prep_background, Head(cubes)))
         \o CubeData(Tail(cubes))

StreamAsSpecified(data, attrs, cubes) ==
    /\ data = CubeData(cubes)
    /\ attrs.NFRAMES = CubeCounts(cubes)
    /\ attrs.NEW_PARA = CubeAngles(cubes)
    /\ Len(attrs.NEW_PARA) = SumInts(attrs.NFRAMES)
    /\ SumInts(attrs.NFRAMES) = Len(data)

\* C11: after run every input cube is in exactly one of the two output
\* streams, in input order inside each stream; NFRAMES of each stream is the
\* sequence of the frame counts of its cubes and NEW_PARA the angles of its
\* frames, so that len(NEW_PARA) = sum(NFRAMES) = number of frames of the
\* stream, and these values, not the input's, are what the tags carry.
C11_StreamsAndAttributesSplit ==
    prep_pc = "done" =>
        /\ StreamAsSpecified(star_out, star_attrs, CubesOfKind(0, FALSE))
        /\ StreamAsSpecified(background_out, background_attrs, CubesOfKind(0, TRUE))

\* What does hold: the statement of C11 for a stream that received a cube.
SplitOfStreamsThatReceivedACube ==
    prep_pc = "done" =>
        /\ star_init =>
              StreamAsSpecified(star_out, star_attrs, CubesOfKind(0, FALSE))
        /\ background_init =>
              StreamAsSpecified(background_out, background_attrs, CubesOfKind(0, TRUE))
        /\ ~ star_init => star_attrs = NoAttributes
        /\ ~ background_init => background_attrs = NoAttributes

\* a finished run that wrote cubes of both kinds with different frame counts
SplitOfBothStreamsReached ==
    /\ prep_pc = "done"
    /\ Len(star_attrs.NFRAMES) > 1
    /\ Len(background_attrs.NFRAMES) > 1
    /\ star_attrs.NFRAMES # prep_nframes
    /\ \E k \in 1..PrepN : prep_nframes[k] = 2

-----------------------------------------------------------------------------
(* Properties of PCABackgroundSubtractionModule *)

PcaN == Len(pca_star)

\* C12: for every N >= 1 and every memory budget M >= 1 the first chunk
\* written replaces the content of the output tag and only later chunks are
\* appended, so that the output holds exactly the frames written so far and,
\* after the run, exactly N frames whatever the tag held before.
C12_FirstChunkReplacesOutput ==
    /\ pca_masks # <<>> => Len(subtracted_out) = Len(pca_masks)
    /\ pca_pc = "done" => Len(subtracted_out) = PcaN

\* What does hold: the statement of C12 for N >= M, where the loop over the
\* whole stacks writes first.
FirstChunkReplacesOutputOfWholeStack ==
    PcaN >= image_memory =>
        /\ pca_masks # <<>> => Len(subtracted_out) = Len(pca_masks)
        /\ pca_pc = "done" => Len(subtracted_out) = PcaN

SumX == SumInts([k \in 1..PcaN |-> star_position[k][1]])
SumY == SumInts([k \in 1..PcaN |-> star_position[k][2]])

\* 0 exactly at the pixels closer than the mask radius to the mean star
\* position (SumX/N, SumY/N), the inequality multiplied by N*N
MeanStarMask ==
    [p \in Pixels |->
        IF (PcaN * p[2] - SumX) * (PcaN * p[2] - SumX)
              + (PcaN * p[1] - SumY) * (PcaN * p[1] - SumY)
              < m_mask_radius_sq * PcaN * PcaN
        THEN 0 ELSE 1]

\* C13: with mask_position 'mean' the mask applied is the same for every star
\* frame of the run, the frames of a final partial chunk included, and is 0
\* exactly at the pixels closer than the mask radius to the mean star position
\* (mean of the x and mean of the y coordinates over all frames) and 1
\* everywhere else.
C13_MeanMaskAtMeanStarPosition ==
    m_mask_position = "mean" =>
        /\ pca_pc # "IndexError"
        /\ \A j \in 1..Len(pca_masks) : pca_masks[j] = MeanStarMask

\* What does hold: with 'mean' the frames of the whole stacks all get the mask
\* made from the first two rows of STAR_POSITION.
MeanMaskOfWholeStacks ==
    (m_mask_position = "mean" /\ PcaN >= 2) =>
        \A j \in 1..Len(pca_masks) :
            j <= PcaNumStacks(PcaN, image_memory) * image_memory =>
                pca_masks[j] = Disk(IntMean(star_position[1]),
                                    IntMean(star_position[2]), m_mask_radius_sq)

\* the run with the whole stack in one chunk (M = N): its masks and its output
WholeStackMask == create_mask(m_mask_position, m_mask_radius_sq, star_position, PcaN)

WholeStackOutput ==
    MinusFit(pca_star,
             model_background(m_mask_position, create_basis(im_background),
                              TimesMask(m_mask_position, pca_star, WholeStackMask.mask),
                              WholeStackMask.mask))

\* the frames written by this run so far
PcaWritten ==
    SubSeq(subtracted_out, Len(subtracted_out) - Len(pca_masks) + 1, Len(subtracted_out))

SameAsWholeStack ==
    \A j \in 1..Len(pca_masks) :
        /\ pca_masks[j] = MaskOfFrame(m_mask_position, WholeStackMask.mask, j)
        /\ PcaWritten[j] = WholeStackOutput[j]

\* C14: the output does not depend on the memory budget: whatever M >= 1 is,
\* the run gives the number of output frames, the mask of each frame and the
\* fit of each frame that the run with the whole stack in one chunk gives, for
\* both mask policies.
C14_OutputIndependentOfMemory ==
    IF WholeStackMask.err THEN pca_pc \in {"start", "IndexError"}
    ELSE /\ pca_pc # "IndexError"
         /\ SameAsWholeStack
         /\ pca_pc = "done" => Len(subtracted_out) = PcaN

\* What does hold: with 'exact' every budget applies the masks and fits of the
\* whole stack, and the frame count is N when N >= M.
ExactMaskIndependentOfMemory ==
    m_mask_position = "exact" =>
        /\ SameAsWholeStack
        /\ (pca_pc = "done" /\ PcaN >= image_memory) => Len(subtracted_out) = PcaN

\* a finished 'exact' run of several chunks, the last one partial
ExactPartialChunkReached ==
    /\ pca_pc = "done"
    /\ m_mask_position = "exact"
    /\ PcaNumStacks(PcaN, image_memory) >= 2
    /\ PcaN % image_memory > 0
    /\ \E j \in 1..PcaN : pca_masks[j] # pca_masks[1]

-----------------------------------------------------------------------------
(* Properties of FakePlanetModule *)

\* C15: for every frame index i of the science stack, output frame i is
\* science input frame i, read from image_in_tag, plus psf_scaling * flux_ratio
\* * the shifted reference PSF, also when psf_in_tag is another tag than
\* image_in_tag; the output has as many frames as the science stack.
C15_PlanetAddedToScienceFrames ==
    fp_pc = "done" =>
        /\ Len(fp_out) = FpNImage
        /\ \A i \in 1..Len(fp_out) :
              /\ fp_out[i].image = fp_image[i]
              /\ fp_out[i].parang = fp_parang[i]

\* What does hold: the statement of C15 when psf_in_tag is image_in_tag.
PlanetAddedToScienceFramesOfSameTag ==
    (fp_pc = "done" /\ fp_same_tag) =>
        /\ Len(fp_out) = FpNImage
        /\ \A i \in 1..Len(fp_out) :
              fp_out[i] = Inject(fp_image[i], fp_image[i], fp_parang[i])

\* a finished run with a PSF cube under another tag, as long as the science stack
PsfCubeOfOtherTagReached ==
    /\ fp_pc = "done"
    /\ ~ fp_same_tag
    /\ FpNPsf = FpNImage
    /\ FpNImage > fp_memory

\* the image dimensions of the entry behind the PSF port
PsfEntrySize ==
    LET shape == PsfPortShape(fp_same_tag, fp_image_shape, fp_psf_shape)
    IN  <<shape[Len(shape) - 1], shape[Len(shape)]>>

\* C16: a reference PSF that is a 2-D image or a 3-D cube is accepted when its
\* image dimensions equal those of the science frames, and the run raises an
\* error exactly when they differ, the decision being taken from the shape of
\* the PSF entry.
C16_RaisesIffPsfSizeDiffers ==
    (FpNdimImage = 3 /\ fp_pc # "start") =>
        IF PsfEntrySize # ImSize(fp_image_shape)
        THEN fp_pc = "ValueError" /\ fp_j = 0 /\ im_stacks = <<>>
        ELSE fp_pc \in {"loop", "done"}

\* What does hold: the decision is taken from the shape of image_in_tag alone;
\* a cube is always accepted, a 2-D image only when the science stack has as
\* many frames as rows and as many rows as columns.
SizeCheckReadsScienceShape ==
    (FpNdimImage = 3 /\ fp_pc # "start") =>
        IF FpNdimPsf = 3 THEN fp_pc \in {"loop", "done"}
        ELSE IF <<fp_image_shape[1], fp_image_shape[2]>> # ImSize(fp_image_shape)
        THEN fp_pc = "ValueError" /\ im_stacks = <<>>
        ELSE im_stacks # <<>>

\* a finished run whose PSF cube has other image dimensions than the science frames
OtherSizedPsfCubeAccepted ==
    /\ fp_pc = "done"
    /\ FpNdimPsf = 3
    /\ PsfEntrySize # ImSize(fp_image_shape)

-----------------------------------------------------------------------------
(* Properties of SimplexMinimizationModule *)

SxN == Len(sx_evaluations)

SxCleared == sx_pc # "start"

\* The evaluations that returned a merit, in the order they were made
RECURSIVE ReturnedOf(_)
ReturnedOf(evaluations) ==
    IF evaluations = <<>> THEN <<>>
    ELSE LET rest == ReturnedOf(Tail(evaluations))
         IN  IF Head(evaluations).outcome = "returned"
             THEN <<Head(evaluations)>> \o rest
             ELSE rest

\* The evaluations that got as far as line 403
RECURSIVE CroppedOf(_)
CroppedOf(evaluations) ==
    IF evaluations = <<>> THEN <<>>
    ELSE LET rest == CroppedOf(Tail(evaluations))
         IN  IF Head(evaluations).crop # <<>>
             THEN <<Head(evaluations)>> \o rest
             ELSE rest

\* C17: once run has cleared the outputs, after every evaluation, returned or
\* aborted, res_out_tag holds as many residual images as flux_position_tag
\* holds rows, one of each for every completed evaluation, in evaluation order.
C17_OutputsOfCompletedEvaluations ==
    SxCleared =>
        LET done == ReturnedOf(sx_evaluations)
        IN  /\ Len(res_out) = Len(done)
            /\ Len(flux_position) = Len(done)
            /\ \A k \in 1..Len(done) :
                  /\ k <= Len(res_out) => res_out[k] = ImRes(done[k].arg)
                  /\ k <= Len(flux_position) => flux_position[k] = FluxPositionRow(done[k].arg)

\* What does hold: flux_position_tag has the rows of the completed evaluations,
\* res_out_tag the residuals of every evaluation that reached line 403.
RowsOfReturnedResidualsOfCropped ==
    SxCleared =>
        /\ flux_position = [k \in 1..Len(ReturnedOf(sx_evaluations)) |->
                               FluxPositionRow(ReturnedOf(sx_evaluations)[k].arg)]
        /\ res_out = [k \in 1..Len(CroppedOf(sx_evaluations)) |->
                         ImRes(CroppedOf(sx_evaluations)[k].arg)]

\* An evaluation aborted for its merit name has left its residuals behind
ResidualsWithoutRowReached ==
    /\ sx_pc = "ValueError"
    /\ Len(res_out) = 1
    /\ flux_position = <<>>
    /\ ~MeritSupported(m_merit)

\* C18: every evaluation crops the residuals around its own trial position
\* (x, y) rotated back by extra_rot.
C18_CropAtTrialPosition ==
    \A k \in 1..SxN :
        sx_evaluations[k].crop # <<>> =>
            sx_evaluations[k].crop =
                Rotate(sx_center, <<sx_evaluations[k].arg[1], sx_evaluations[k].arg[2]>>,
                       0 - m_extra_rot)

\* What does hold: every evaluation crops around the position of the first
\* evaluation, x0 rotated back.
CropAtFirstPosition ==
    \A k \in 1..SxN :
        sx_evaluations[k].crop # <<>> =>
            sx_evaluations[k].crop = Rotate(sx_center, <<SxX0[1], SxX0[2]>>, 0 - m_extra_rot)

TwoTrialPositionsOneCropReached ==
    /\ SxN >= 2
    /\ sx_evaluations[1].crop # <<>>
    /\ sx_evaluations[2].crop = sx_evaluations[1].crop
    /\ <<sx_evaluations[1].arg[1], sx_evaluations[1].arg[2]>>
         # <<sx_evaluations[2].arg[1], sx_evaluations[2].arg[2]>>

\* The least merit the search has seen: the merit of the best vertex of the
\* simplex, which the search never gives up
LeastMerit == Min({flux_position[k].merit : k \in 1..Len(flux_position)})

\* C19: when run completes, the last row of flux_position_tag and the last
\* image of res_out_tag are those of the optimum of the search, the vertex of
\* least merit.
C19_LastRowIsOptimum ==
    sx_pc = "done" =>
        /\ flux_position # <<>>
        /\ flux_position[Len(flux_position)].merit = LeastMerit
        /\ res_out # <<>>
        /\ Merit(res_out[Len(res_out)].arg) = LeastMerit

\* What does hold: the last row and the last image are those of the evaluation
\* the search made last.
LastRowOfLastEvaluation ==
    sx_pc = "done" =>
        /\ flux_position[Len(flux_position)] = FluxPositionRow(sx_evaluations[SxN].arg)
        /\ res_out[Len(res_out)] = ImRes(sx_evaluations[SxN].arg)

LastRowAboveOptimumReached ==
    /\ sx_pc = "done"
    /\ flux_position[Len(flux_position)].merit > LeastMerit

\* C20: an unsupported merit name, an unsupported pca_module name and a
\* residual entry of more than one frame each raise an error in the evaluation
\* in which they occur, and no evaluation follows.
C20_FailureEndsOptimisation ==
    \A k \in 1..SxN :
        LET evaluation == sx_evaluations[k]
            fails == \/ m_merit \notin {"hessian", "sum"}
                     \/ m_pca_module \notin {"PSFSubtractionModule", "FastPCAModule"}
                     \/ evaluation.frames > 1
        IN  /\ fails => /\ evaluation.outcome = "ValueError"
                        /\ k = SxN
                        /\ sx_pc = "ValueError"
            /\ evaluation.outcome = "ValueError" => fails

C20_Witness ==
    /\ sx_pc = "ValueError"
    /\ SxN >= 3
    /\ sx_evaluations[SxN].frames > 1
    /\ sx_evaluations[SxN].outcome = "ValueError"
    /\ Len(flux_position) = SxN - 1

UnsupportedMeritRaisedReached ==
    /\ sx_pc = "ValueError"
    /\ SxN = 1
    /\ m_merit = "gaussian"
    /\ PcaModuleSupported(m_pca_module)

UnsupportedPcaModuleRaisedReached ==
    /\ sx_pc = "ValueError"
    /\ SxN = 1
    /\ m_pca_module = "PcaPsfSubtractionModule"
    /\ res_out = <<>>

-----------------------------------------------------------------------------
(* Properties of the constructors *)

\* C21: a mode argument other than "next", "previous" or "both" makes the
\* constructor of NoddingBackgroundModule and of SkySubtraction fail; no
\* instance with another mode in its place is constructed.
C21_UnsupportedModeIsFatal ==
    (new_pc # "call" /\ new_mode \notin {"next", "previous", "both"}) =>
        /\ new_pc = "ValueError"
        /\ new_m_mode = "unset"

\* What does hold: the statement for NoddingBackgroundModule; an instance of
\* either class has the mode asked for whenever that mode is supported.
UnsupportedModeIsFatalForNodding ==
    /\ (new_pc # "call" /\ new_class = "NoddingBackgroundModule"
        /\ new_mode \notin {"next", "previous", "both"}) =>
           /\ new_pc = "ValueError"
           /\ new_m_mode = "unset"
    /\ (new_pc # "call" /\ new_mode \in {"next", "previous", "both"}) =>
           /\ new_pc = "constructed"
           /\ new_m_mode = new_mode

SkySubtractionWithSubstituteModeReached ==
    /\ new_class = "SkySubtraction"
    /\ new_pc = "constructed"
    /\ new_mode = "nearest"
    /\ new_m_mode = "next"

-----------------------------------------------------------------------------
(* Further properties of PCABackgroundPreparationModule *)

\* C22: on an input without the attribute NEW_PARA run raises an error and
\* leaves the data and the attributes of the star and the background output
\* tag as they were.
C22_MissingParaRaisesBeforeWriting ==
    [][~ prep_has_para =>
          /\ prep_pc' = "ValueError"
          /\ UNCHANGED <<star_out, background_out, star_attrs, background_attrs>>]_prepVars

C22_Witness ==
    /\ ~ prep_has_para
    /\ prep_pc = "ValueError"
    /\ star_out = <<FromInt(7)>>
    /\ background_out = <<FromInt(7)>>
    /\ star_attrs # NoAttributes

\* the backgrounds built from the nearest BACKGROUND cubes found for SOURCE
\* cube k
BackgroundsFoundFor(k) ==
    (IF HasPrevious(k) THEN {At(cube_mean, NearestPrevious(k))} ELSE {})
    \cup (IF HasNext(k) THEN {At(cube_mean, NearestNext(k))} ELSE {})
    \cup (IF HasPrevious(k) /\ HasNext(k)
          THEN {Average2(At(cube_mean, NearestPrevious(k)), At(cube_mean, NearestNext(k)))}
          ELSE {})

\* C27: with at least one BACKGROUND cube in the sequence every SOURCE cube
\* gets a background, built from the nearest BACKGROUND cube(s) found for that
\* cube only: never from a previous or next value that is undefined or was
\* left by an earlier cube.
C27_BackgroundFromFoundCubesOnly ==
    (PrepFlagged /\ BackgroundCubes # {}) =>
        /\ prep_pc # "UnboundLocalError"
        /\ \A k \in ProcessedCubes \cap SourceCubes :
              At(prep_background, k) \in BackgroundsFoundFor(k)

\* What does hold: the statement of C27 for the SOURCE cubes that have a
\* BACKGROUND cube on both sides, and for the first and the last cube.
BackgroundFromFoundCubesBetweenBackgrounds ==
    PrepFlagged =>
        \A k \in ProcessedCubes \cap SourceCubes :
            ((HasPrevious(k) /\ HasNext(k)) \/ k = 0 \/ k = PrepN - 1) =>
                At(prep_background, k) \in BackgroundsFoundFor(k)

\* run has stopped at the second of two SOURCE cubes that open the sequence:
\* no BACKGROUND cube precedes it, the sequence has BACKGROUND cubes
PrepUnboundWithBackgroundReached ==
    /\ prep_pc = "UnboundLocalError"
    /\ BackgroundCubes # {}
    /\ prep_i = 1
    /\ ~ HasPrevious(prep_i)
    /\ HasNext(prep_i)

\* a SOURCE cube near the end of the sequence has taken the next value left by
\* an earlier SOURCE cube
PrepLeftOverNextReached ==
    /\ prep_pc = "done"
    /\ \E k \in SourceCubes :
          /\ ~ HasNext(k)
          /\ At(prep_background, k) \notin BackgroundsFoundFor(k)

-----------------------------------------------------------------------------
(* Further properties of MeanBackgroundSubtractionModule *)

\* the groups of cubes_per_position cubes; the last group holds the cubes that
\* are left
GroupCount == (Len(mean_nframes) + m_cubes_per_position - 1) \div m_cubes_per_position

\* the first frame of group g: a cumulative sum of NFRAMES
GroupStart(g) == SumInts(SubSeq(mean_nframes, 1, Min({g * m_cubes_per_position,
                                                      Len(mean_nframes)})))

GroupMean(g) == NpMean(SubSeq(mean_in, GroupStart(g) + 1, GroupStart(g + 1)))

GroupOfFrame(k) ==
    CHOOSE g \in 0..(GroupCount - 1) : GroupStart(g) <= k /\ k < GroupStart(g + 1)

GroupBackground(g) ==
    IF g = 0 THEN GroupMean(1)
    ELSE IF g = GroupCount - 1 THEN GroupMean(g - 1)
    ELSE RDiv(RAdd(GroupMean(g - 1), GroupMean(g + 1)), 2)

\* C23: with NFRAMES in use and at least 2*cubes_per_position cubes, every
\* input frame appears once in the output, in input order, less the mean of the
\* second group (first group), the mean of the group before (last group) or the
\* average of the means of the groups before and after (any other group).
C23_NFramesGroups ==
    (mean_pc = "done" /\ m_star_prs_shift.kind # "int") =>
        /\ Len(mean_nframes) >= 2 * m_cubes_per_position
        /\ Len(mean_out) = Len(mean_in)
        /\ \A k \in 0..(Len(mean_in) - 1) :
              At(mean_out, k) = RSub(At(mean_in, k), GroupBackground(GroupOfFrame(k)))

\* five cubes in groups of two: the last group is one cube
C23_Witness ==
    /\ mean_pc = "done"
    /\ m_star_prs_shift.kind # "int"
    /\ m_cubes_per_position = 2
    /\ Len(mean_nframes) = 5
    /\ Len(mean_in) = 6
    /\ Len(mean_out) = 6
    /\ At(mean_out, 5) # At(mean_in, 5)

\* the runs of consecutive frames <<lo, hi>> (lo <= index < hi) that lie
\* outside the block of frame k
RunsOutsideBlockOf(k) ==
    {r \in (0..MeanN) \X (0..MeanN) :
        /\ r[1] < r[2]
        /\ \A j \in r[1]..(r[2] - 1) : BlockOf(j) # BlockOf(k)}

\* a background from frames outside the block of k: the mean of such a run or
\* the average of the means of two
BackgroundsOutsideBlockOf(k) ==
    LET means == {NpMean(SubSeq(mean_in, r[1] + 1, r[2])) : r \in RunsOutsideBlockOf(k)}
    IN  means \cup {Average2(x, y) : x \in means, y \in means}

FixedShiftLayoutKept ==
    /\ Len(mean_out) = MeanN
    /\ \A k \in 0..(MeanN - 1) :
          k < Len(mean_out) =>
             \E background \in BackgroundsOutsideBlockOf(k) :
                At(mean_out, k) = RSub(At(mean_in, k), background)

\* C24: with an integer star_pos_shift S and any N >= 2S the output has N
\* frames, and output frame i is input frame i less a background of frames
\* outside the block of i: every input frame is processed once, in input order.
C24_FixedShiftKeepsLayout ==
    (mean_pc = "done" /\ m_star_prs_shift.kind = "int") => FixedShiftLayoutKept

\* What does hold: the statement of C24 for the stacks of at least three blocks.
FixedShiftKeepsLayoutFromThreeBlocks ==
    (mean_pc = "done" /\ m_star_prs_shift.kind = "int" /\ MeanN >= 3 * MeanS) =>
        FixedShiftLayoutKept

\* a stack of two blocks has come out with its first block twice
FirstBlockTwiceReached ==
    /\ mean_pc = "done"
    /\ m_star_prs_shift.kind = "int"
    /\ MeanN >= 2 * MeanS
    /\ MeanN < 3 * MeanS
    /\ Len(mean_out) = MeanN + MeanS

-----------------------------------------------------------------------------
(* Further properties of NoddingBackgroundModule *)

\* the list of a first run
FirstRunList == create_time_stamp_list(<<>>, sky_exp_no, science_exp_no, science_nframes)

\* the frames a run over the list ts appends from position i on
RECURSIVE OutputFrom(_, _)
OutputFrom(ts, i) ==
    IF i >= Len(ts) THEN <<>>
    ELSE IF IsSky(ts, i) THEN OutputFrom(ts, i + 1)
    ELSE SubtractFromAll(Slice(science_arr, At(ts, i).m_index[1], At(ts, i).m_index[2]),
                         calc_sky_frame(ts, sky_arr, m_mode, i).frame)
         \o OutputFrom(ts, i + 1)

\* C25: a second run of an instance on unchanged inputs uses a list with the
\* entries of the first run, one per sky frame and one per science exposure,
\* and gives the output of the first run, each science frame once.
C25_SecondRunAsFirst ==
    (nod_pc = "done" /\ nod_runs = 2) =>
        /\ m_time_stamps = FirstRunList
        /\ nod_out = OutputFrom(FirstRunList, 0)
        /\ Len(nod_out) = Len(science_arr)

\* What does hold: the first run gives the output of its list, each science
\* frame once; the list of the second run holds every entry twice.
FirstRunOutputSecondRunList ==
    /\ (nod_pc = "done" /\ nod_runs = 1) =>
          /\ m_time_stamps = FirstRunList
          /\ nod_out = OutputFrom(FirstRunList, 0)
          /\ Len(nod_out) = Len(science_arr)
    /\ (nod_pc = "done" /\ nod_runs = 2) =>
          /\ Len(m_time_stamps) = 2 * Len(FirstRunList)
          /\ Len(nod_out) = 2 * Len(science_arr)

SecondRunDoubledReached ==
    /\ nod_pc = "done"
    /\ nod_runs = 2
    /\ Len(nod_out) = 2 * Len(science_arr)
    /\ Len(m_time_stamps) = 2 * (Len(sky_exp_no) + Len(science_exp_no))

\* the science exposure (1-based) that holds input frame k
ExposureOfFrame(k) ==
    CHOOSE e \in 1..Len(science_nframes) :
        /\ SumInts(SubSeq(science_nframes, 1, e - 1)) <= k
        /\ k < SumInts(SubSeq(science_nframes, 1, e))

\* the position in the list of the entry of science exposure e
PositionOfExposure(ts, e) ==
    CHOOSE p \in Positions(ts) :
        At(ts, p) = ScienceEntries(science_exp_no, science_nframes)[e]

OutputAlignedWithInput ==
    /\ Len(nod_out) = SumInts(science_nframes)
    /\ \A k \in 0..(Len(science_arr) - 1) :
          k < Len(nod_out) =>
             At(nod_out, k) =
                RSub(At(science_arr, k),
                     calc_sky_frame(m_time_stamps, sky_arr, m_mode,
                                    PositionOfExposure(m_time_stamps,
                                                       ExposureOfFrame(k))).frame)

\* C28: the output has sum(NFRAMES) frames and output frame k is science frame
\* k less the sky frame resolved for its exposure, whatever the EXP_NO values
\* of the science exposures are.
C28_OutputAlignedWithScienceInput == nod_pc = "done" => OutputAlignedWithInput

ScienceInTimeOrder ==
    \A e, f \in 1..Len(science_exp_no) : e < f => science_exp_no[e] <= science_exp_no[f]

\* What does hold: the statement of C28 for the first run of an instance on
\* science exposures whose EXP_NO values do not decrease.
OutputAlignedForExposuresInTimeOrder ==
    (nod_pc = "done" /\ nod_runs = 1 /\ ScienceInTimeOrder) => OutputAlignedWithInput

\* a first run has written the frames of a later exposure before those of an
\* earlier one
OutputInTimeOrderReached ==
    /\ nod_pc = "done"
    /\ nod_runs = 1
    /\ ~ ScienceInTimeOrder
    /\ Len(nod_out) = SumInts(science_nframes)
    /\ nod_out = OutputFrom(m_time_stamps, 0)
    /\ ~ OutputAlignedWithInput

\* C29: the two searches of calc_sky_frame, which call each other when they
\* find nothing, end: on a list with a SKY entry each returns a SKY position
\* after at most one call of the other, for every SCIENCE position; on a list
\* without SKY entries the guard raises and no search is started.
C29_FallbackSearchTerminates ==
    nod_pc # "idle" =>
        \A i \in SciencePositions(m_time_stamps) :
            /\ \A mode \in {"next", "previous", "both"} :
                  LET result == calc_sky_frame(m_time_stamps, sky_arr, mode, i)
                  IN  /\ result.err # "RuntimeError"
                      /\ result.err = "ValueError" <=> ~ HasSky(m_time_stamps)
            /\ HasSky(m_time_stamps) =>
                  /\ search_for_next_sky(m_time_stamps, i, 0).pos \in SkyPositions(m_time_stamps)
                  /\ search_for_next_sky(m_time_stamps, i, 0).fallbacks <= 1
                  /\ search_for_previous_sky(m_time_stamps, i, 0).pos \in SkyPositions(m_time_stamps)
                  /\ search_for_previous_sky(m_time_stamps, i, 0).fallbacks <= 1

\* a run has ended whose list made each search fall back once: a SCIENCE entry
\* with no SKY entry after it and one with no SKY entry before it
C29_Witness ==
    /\ nod_pc = "done"
    /\ nod_out # <<>>
    /\ \E i \in SciencePositions(m_time_stamps) :
          search_for_next_sky(m_time_stamps, i, 0).fallbacks = 1
    /\ \E i \in SciencePositions(m_time_stamps) :
          search_for_previous_sky(m_time_stamps, i, 0).fallbacks = 1

\* run has raised on a list without SKY entries
GuardRaisedReached ==
    /\ nod_pc = "error"
    /\ ~ HasSky(m_time_stamps)
    /\ \E i \in SciencePositions(m_time_stamps) :
          calc_sky_frame(m_time_stamps, sky_arr, m_mode, i).err = "ValueError"

-----------------------------------------------------------------------------
(* Properties of PCABackgroundDitheringModule *)

\* the dither positions whose preparation step flags cube k as a star cube
PositionsOfCube(k) ==
    {i \in 1..Len(dither_prepared) : ~ At(dither_prepared[i].bg_frames, k)}

EveryCubeAtOnePositionForSingleCubes ==
    (dither_pc = "done" /\ (dither_cubes_per_position = 1 \/ Len(m_center) = 1)) =>
        \A k \in 0..(Len(dither_nframes) - 1) : Cardinality(PositionsOfCube(k)) = 1

\* two cubes per position at two positions: cube 1 is a star cube at both and
\* cube 3 at none
CubeAtTwoPositionsAndAtNoneReached ==
    /\ dither_pc = "done"
    /\ dither_cubes_per_position = 2
    /\ Len(m_center) = 2
    /\ Len(dither_nframes) >= 4
    /\ Cardinality(PositionsOfCube(1)) = 2
    /\ PositionsOfCube(3) = {}

-----------------------------------------------------------------------------
(* Further properties of FakePlanetModule *)

\* the chunk boundaries split 0..N into consecutive chunks of at most M frames
ChunksPartition ==
    /\ Len(im_stacks) >= 2
    /\ im_stacks[1] = 0
    /\ im_stacks[Len(im_stacks)] = FpNImage
    /\ \A j \in 1..(Len(im_stacks) - 1) :
          /\ im_stacks[j] < im_stacks[j + 1]
          /\ im_stacks[j + 1] - im_stacks[j] <= fp_memory

\* the PSF that goes with frame g: the frame g of a cube as long as the science
\* stack, the mean over all frames of a cube of another length, the 2-D image
PsfOfFrame(port, g) ==
    IF FpNdimPsf = 2 THEN port
    ELSE IF FpNPsf # FpNImage THEN NpMean(port)
    ELSE At(port, g)

\* the output of a run that holds the whole stack in memory, frames read from
\* the entry stack
OutputOfWholeStack(stack, port) ==
    [k \in 1..FpNImage |-> Inject(stack[k], PsfOfFrame(port, k - 1), fp_parang[k])]

ChunkedAs(stack, port) ==
    /\ ChunksPartition
    /\ fp_pc = "loop" =>
          fp_out = IF fp_j = 0 THEN fp_out
                   ELSE SubSeq(OutputOfWholeStack(stack, port), 1, At(im_stacks, fp_j))
    /\ fp_pc = "done" => fp_out = OutputOfWholeStack(stack, port)

\* C30: the chunk boundaries split 0..N into consecutive chunks of at most M
\* frames; the first chunk replaces the output and every later chunk is
\* appended; science frame g goes with parallactic angle g and with PSF frame
\* g of a per-frame PSF cube, or with the mean over all frames of a PSF cube
\* of another length; the output is the same for every M.
C30_ChunkingKeepsOutput ==
    fp_pc \in {"loop", "done"} =>
        ChunkedAs(fp_image, PsfPort(fp_same_tag, fp_image, fp_psf))

\* What does hold: the statement of C30 when psf_in_tag is image_in_tag; the
\* chunk boundaries are a partition for every tag.
ChunkingKeepsOutputOfSameTag ==
    fp_pc \in {"loop", "done"} =>
        /\ ChunksPartition
        /\ fp_same_tag => ChunkedAs(fp_image, fp_image)

\* a run in chunks, the last one shorter, has written PSF frames with a planet
ChunksOfPsfFramesReached ==
    /\ fp_pc = "done"
    /\ ~ fp_same_tag
    /\ FpNdimPsf = 3
    /\ Len(im_stacks) = 3
    /\ FpNImage % fp_memory # 0
    /\ fp_out # OutputOfWholeStack(fp_image, fp_psf)

=============================================================================
